---- MODULE Spec2Model ----
(***************************************************************************)
(* A model of the MCP bridge / hub repository.                             *)
(*                                                                         *)
(*  - the bridge supervisor of one (endpoint, provider) pair:              *)
(*    src/src/mcp_xiaozhi/connection.py and pipe.py       (SpecBridge)     *)
(*  - the aggregating hub: src/web/websocket_hub.py                         *)
(*    with two provider sockets (SpecHub), with one (SpecOneSocket)        *)
(*  - a tools/list of a frontend through the hub and one bridge:           *)
(*    websocket_hub.py, pipe.py and tools_filter.py       (SpecList)       *)
(*  - the reconciler of the bridge host:                                   *)
(*    src/src/mcp_xiaozhi/main.py        (SpecRec, SpecTwoConnects)        *)
(*                                                                         *)
(* Every coroutine is cut at its suspension points (await): one action is  *)
(* the code that runs between two of them.                                 *)
(***************************************************************************)
EXTENDS Naturals, Integers, Sequences, FiniteSets, TLC

Min(a, b) == IF a <= b THEN a ELSE b

RECURSIVE Pow2(_)
Pow2(n) == IF n = 0 THEN 1 ELSE 2 * Pow2(n - 1)

(***************************************************************************)
(*                         THE BRIDGE SUPERVISOR                           *)
(***************************************************************************)

\* config.py: reconnection settings
INITIAL_BACKOFF == 1
MAX_BACKOFF == 600

\* Bounds of the bridge model.
MaxAttempt == 11
MaxLines == 2

NoId == 0

\* JSON-RPC ids seen on the bridge; 0 is a legal id that Python finds falsy.
ReqIds == {0, 1}

BridgeToolNames == {"t1", "t2"}

Tool(n, d) == [name |-> n, description |-> d]

ProviderTools == <<Tool("t1", "d1"), Tool("t2", "d2")>>

\* A line of the child's stdout: text that is not JSON, or a JSON-RPC
\* response, with or without result.tools.
NoiseLine == [json |-> FALSE, id |-> 0, hasTools |-> FALSE, tools |-> <<>>]

RespLine(i, ht, ts) == [json |-> TRUE, id |-> i, hasTools |-> ht, tools |-> ts]

StdoutLines ==
    {NoiseLine, RespLine(1, FALSE, <<>>)}
        \cup {RespLine(i, TRUE, ProviderTools) : i \in ReqIds}

\* A frame received from the WebSocket: a tools/list request or another one.
WsFrames ==
    [method : {"tools/list"}, id : ReqIds, include_disabled : BOOLEAN]
        \cup [method : {"tools/call"}, id : {1}, include_disabled : {FALSE}]

\* Exceptions: all are subclasses of Exception but the cancellation.
Exceptions ==
    {"refused", "auth", "closed", "spawn", "disabled", "pipe", "cancelled"}

VARIABLES
    bpc,                  \* position of the supervisor task
    reconnect_attempt,    \* connect_with_retry: local
    backoff,              \* connect_with_retry: local
    endpoint_id,          \* id of the endpoint's row, NoId when it has none
    connection_status,    \* mcp_endpoints.connection_status
    connection_error,     \* mcp_endpoints.connection_error
    process_alive,        \* the child process has not exited
    stdout_buf,           \* lines the child wrote and the pipe has not read
    lines_written,        \* number of lines the child wrote on this connection
    ws_sent,              \* frames sent on the WebSocket of this connection
    p2w,                  \* pipe_process_to_websocket: running / ended
    errpipe,              \* pipe_process_stderr_to_terminal: running / ended
    pipe_pending,         \* pipe.py: _pending_tools_requests
    disabled_tools,       \* tool settings: disabled tools of this provider
    custom_tools,         \* tool settings: custom descriptions
    everOpened,           \* history: a WebSocket was opened
    authFailed            \* history: an attempt failed with 'Authentication failed'

varsBridge ==
    <<bpc, reconnect_attempt, backoff, endpoint_id, connection_status,
      connection_error, process_alive, stdout_buf, lines_written, ws_sent,
      p2w, errpipe, pipe_pending, disabled_tools, custom_tools, everOpened,
      authFailed>>

VARIABLES
    conn_name,               \* open provider sockets: socket -> server name
    mcp_tools,               \* hub.mcp_tools: server name -> socket
    server_tools,            \* hub.server_tools, a dict in insertion order
    tool_registry,           \* hub.tool_registry: tool name -> server name
    pending_inits,           \* hub.pending_inits
    pending_tools_requests,  \* hub.pending_tools_requests: whose event
    inbox,                   \* requests sent to a provider, not yet answered
    fpc,                     \* position of a frontend's tools/list handler
    events,                  \* refresh_all_tools: local events, per server
    request_id,              \* handle_browser_message: local, per frontend
    reply,                   \* the answer the hub gave in the last step, if any
    sent,                    \* frames sent to providers in the last step
    forwarded                \* the frame passed on to frontends in that step

varsHub ==
    <<conn_name, mcp_tools, server_tools, tool_registry, pending_inits,
      pending_tools_requests, inbox, fpc, events, request_id, reply, sent,
      forwarded>>

VARIABLES
    known_endpoints,   \* _run_servers: endpoint name -> URL
    enabled,           \* _run_servers: the enabled servers of the config loaded
    cfg_enabled,       \* mcp_config.json: the enabled servers in the file
    cfg_changed,       \* the file's mtime is newer than config_mtime
    running_tasks,     \* _run_servers: key -> task
    tasks,             \* the supervisor tasks of the event loop
    hpc,               \* position of each on_endpoint_update in progress
    hl,                \* locals of each on_endpoint_update in progress
    mpc,               \* position of _run_servers
    ml,                \* locals of the hot-reload in progress
    n_events,          \* number of Ably messages received
    n_edits            \* number of edits of mcp_config.json

varsRec ==
    <<known_endpoints, enabled, cfg_enabled, cfg_changed, running_tasks,
      tasks, hpc, hl, mpc, ml, n_events, n_edits>>

VARIABLES
    rt_pc,        \* how far the tools/list of a frontend has travelled
    rt_tools,     \* the tools the provider's child lists
    rt_disabled,  \* tool settings: disabledTools of the provider
    rt_custom,    \* tool settings: customTools of the provider
    rt_include,   \* params.include_disabled of the frontend's request
    rt_request,   \* the tools/list request the hub sent to the bridge
    rt_pending,   \* pipe.py: _pending_tools_requests, at the request's id
    rt_frame,     \* the tools/list response the bridge sent to the hub
    rt_cache,     \* hub.server_tools
    rt_event,     \* refresh_all_tools: the event of the provider
    rt_reply      \* the answer of the hub to the frontend

varsList ==
    <<rt_pc, rt_tools, rt_disabled, rt_custom, rt_include, rt_request,
      rt_pending, rt_frame, rt_cache, rt_event, rt_reply>>

VARIABLES
    MCP_WS_TOKEN,  \* auth.py: the token of the hub's environment, "" when unset
    dialled        \* how handle_connection took a socket that is no provider

varsDial == <<MCP_WS_TOKEN, dialled>>

VARIABLES
    mcp_endpoints,  \* database.py: the table mcp_endpoints, id -> row
    db_seq,         \* the highest id the table has given (AUTOINCREMENT)
    clock,          \* datetime.now(timezone.utc) of the host of the database
    published       \* the events the last request of the admin API published

varsDb == <<mcp_endpoints, db_seq, clock, published>>

VARIABLES
    child_lines,      \* number of lines the child has written on its stdout
    child_stdout,     \* the lines of the stdout pipe, not yet read
    p2w_data,         \* pipe_process_to_websocket: the line it holds
    ws_frames,        \* the frames on the WebSocket, not yet read by the hub
    hub_message,      \* handle_connection: the message of the provider it holds
    clients_left,     \* forward_to_browsers: the clients not yet sent to
    browser_clients,  \* hub.browser_clients
    delivered         \* the frames each frontend socket has got, in order

varsPath ==
    <<child_lines, child_stdout, p2w_data, ws_frames, hub_message,
      clients_left, browser_clients, delivered>>

VARIABLES
    module_pending,  \* pipe.py: _pending_tools_requests, one dict per process
    child_asked,     \* per bridge: the tools/list requests its child holds
    flag_applied     \* per bridge: include_disabled of the last filtering

varsTwo == <<module_pending, child_asked, flag_applied>>

vars ==
    <<varsBridge, varsHub, varsRec, varsList, varsDial, varsDb, varsPath,
      varsTwo>>

\* The parts run in different processes: a step of one leaves the others
\* alone.
BridgeOnly == UNCHANGED <<varsHub, varsRec, varsList, varsDial, varsDb,
                          varsPath, varsTwo>>

HubOnly == UNCHANGED <<varsBridge, varsRec, varsList, varsDial, varsDb,
                       varsPath, varsTwo>>

RecOnly == UNCHANGED <<varsBridge, varsHub, varsList, varsDial, varsDb,
                       varsPath, varsTwo>>

ListOnly == UNCHANGED <<varsBridge, varsHub, varsRec, varsDial, varsDb,
                        varsPath, varsTwo>>

DbOnly ==
    UNCHANGED <<varsBridge, varsHub, varsRec, varsList, varsDial, varsPath,
                varsTwo>>

PathOnly ==
    UNCHANGED <<varsBridge, varsHub, varsRec, varsList, varsDial, varsDb,
                varsTwo>>

TwoOnly ==
    UNCHANGED <<varsBridge, varsHub, varsRec, varsList, varsDial, varsDb,
                varsPath>>

NoFlag == "absent"

\* customTools of this provider: tool name -> custom description or none.
NoCustom == [t \in BridgeToolNames |-> "none"]

InitBridge ==
    /\ bpc = "loop_top"
    /\ reconnect_attempt = 0
    /\ backoff = INITIAL_BACKOFF
    /\ endpoint_id \in {NoId, 1}
    /\ connection_status = "disconnected"
    /\ connection_error = "null"
    /\ process_alive = FALSE
    /\ stdout_buf = <<>>
    /\ lines_written = 0
    /\ ws_sent = <<>>
    /\ p2w = "none"
    /\ errpipe = "none"
    /\ pipe_pending = [i \in ReqIds |-> NoFlag]
    /\ disabled_tools \in {{}, {"t1"}}
    /\ custom_tools \in {NoCustom, [NoCustom EXCEPT !["t2"] = "c2"]}
    /\ everOpened = FALSE
    /\ authFailed = FALSE

\* An update that leaves the stored error alone when none is passed.
StatusKeepsError(status, error) ==
    IF endpoint_id = NoId
    THEN <<connection_status, connection_error>>
    ELSE IF status = "connected" THEN <<status, "null">>
    ELSE <<status, IF error = "null" THEN connection_error ELSE error>>

\* database.py update_endpoint_status, called under "if endpoint_id:".
StatusAfter(status, error) ==
    IF endpoint_id = NoId
    THEN <<connection_status, connection_error>>
    ELSE IF status = "connected" THEN <<status, "null">> ELSE <<status, error>>

SetStatus(status, error) ==
    /\ connection_status' = StatusAfter(status, error)[1]
    /\ connection_error' = StatusAfter(status, error)[2]

\* connect_with_retry: "except Exception" catches every exception but the
\* cancellation, a BaseException.
RetryCatches(exc) == exc # "cancelled"

\* connect_with_retry: the new backoff after a failure.
NextBackoff(b) == Min(b * 2, MAX_BACKOFF)

\* asyncio.gather, connection.py 122-126: the exception of one pipe reaches
\* connect_to_server at once and the other pipes are not cancelled; they
\* are when the supervisor itself is cancelled.  A pipe left running may
\* read the end of its stream while the WebSocket closes (the child may
\* exit when pipe_websocket_to_process closes its stdin), or still run.
PipesLeft(exc, pipe) ==
    IF bpc # "piping" THEN {pipe}
    ELSE IF exc = "cancelled" THEN {"none"}
    ELSE IF pipe = "running" THEN {"running", "ended"}
    ELSE {pipe}

\* The connection is over: the WebSocket is closed and the child is
\* terminated (terminate, wait 5 s, kill).
ConnectionGone(exc) ==
    /\ process_alive' = FALSE
    /\ stdout_buf' = <<>>
    /\ lines_written' = 0
    /\ ws_sent' = <<>>
    /\ p2w' \in PipesLeft(exc, p2w)
    /\ errpipe' \in PipesLeft(exc, errpipe)

\* An exception leaves connect_to_server (its except clauses write the
\* status and re-raise, its finally terminates the child) and reaches
\* connect_with_retry, whose handler counts it, writes status 'error' and
\* doubles the backoff; what it does not catch ends the supervisor task.
Raise(exc) ==
    /\ ConnectionGone(exc)
    /\ IF RetryCatches(exc)
       THEN /\ reconnect_attempt' = reconnect_attempt + 1
            /\ SetStatus("error", exc)
            /\ backoff' = NextBackoff(backoff)
            /\ bpc' = "loop_top"
       ELSE /\ bpc' = "terminated"
            /\ UNCHANGED <<reconnect_attempt, backoff, connection_status,
                           connection_error>>
    /\ authFailed' = (authFailed \/ exc = "auth")
    /\ UNCHANGED <<endpoint_id, disabled_tools, custom_tools>>

\* connect_with_retry, top of the loop: wait before a reconnection.
LoopTop ==
    /\ bpc = "loop_top"
    /\ IF reconnect_attempt > 0
       THEN /\ SetStatus("disconnected", "null")
            /\ bpc' = "sleeping"
       ELSE /\ SetStatus("connecting", "null")
            /\ bpc' = "connecting"
    /\ UNCHANGED <<reconnect_attempt, backoff, endpoint_id, process_alive,
                   stdout_buf, lines_written, ws_sent, p2w, errpipe,
                   pipe_pending, disabled_tools, custom_tools, everOpened,
                   authFailed>>
    /\ BridgeOnly

\* The sleep of backoff seconds is over: connect_to_server starts dialing.
SleepDone ==
    /\ bpc = "sleeping"
    /\ SetStatus("connecting", "null")
    /\ bpc' = "connecting"
    /\ UNCHANGED <<reconnect_attempt, backoff, endpoint_id, process_alive,
                   stdout_buf, lines_written, ws_sent, p2w, errpipe,
                   pipe_pending, disabled_tools, custom_tools, everOpened,
                   authFailed>>
    /\ BridgeOnly

\* websockets.connect raises: connection refused, or a RuntimeError whose
\* message contains 'Authentication failed'.
ConnectFail(exc) ==
    /\ bpc = "connecting"
    /\ reconnect_attempt < MaxAttempt
    /\ exc \in {"refused", "auth"}
    /\ Raise(exc)
    /\ UNCHANGED <<pipe_pending, everOpened>>
    /\ BridgeOnly

\* The WebSocket opens, the child is spawned and the three pipes start.
ConnectOk ==
    /\ bpc = "connecting"
    /\ SetStatus("connected", "null")
    /\ bpc' = "piping"
    /\ process_alive' = TRUE
    /\ stdout_buf' = <<>>
    /\ lines_written' = 0
    /\ ws_sent' = <<>>
    /\ p2w' = "running"
    /\ errpipe' = "running"
    /\ everOpened' = TRUE
    /\ UNCHANGED <<reconnect_attempt, backoff, endpoint_id, pipe_pending,
                   disabled_tools, custom_tools, authFailed>>
    /\ BridgeOnly

\* The WebSocket opens and build_server_command or Popen raises.
SpawnFail ==
    /\ bpc = "connecting"
    /\ reconnect_attempt < MaxAttempt
    /\ Raise("spawn")
    /\ everOpened' = TRUE
    /\ UNCHANGED pipe_pending
    /\ BridgeOnly

\* The WebSocket opens and build_server_command finds the server disabled
\* in mcp_config.json: _build_from_config raises ConfigurationError, an
\* Exception, before any child is spawned.
SpawnRefused ==
    /\ bpc = "connecting"
    /\ reconnect_attempt < MaxAttempt
    /\ Raise("disabled")
    /\ everOpened' = TRUE
    /\ UNCHANGED pipe_pending
    /\ BridgeOnly

\* database.py get_custom_tools: the metadata of a tool, with the key
\* "name" when custom_name is set and the key "description" when
\* custom_description is set ("none" stands for a key that is missing).
Meta(custom_name, custom_description) ==
    [name |-> custom_name, description |-> custom_description]

\* tools_filter.py filter_tools_response, lines 109-132: the tools kept,
\* disabled ones skipped unless include_disabled; a tool with custom
\* metadata is copied and the custom description, when there is one,
\* replaces its description.
FilterRenames(tools, disabled, custom, include_disabled) ==
    LET RECURSIVE F(_)
        F(ts) ==
            IF ts = <<>> THEN <<>>
            ELSE LET tool == Head(ts)
                     tool_custom == custom[tool.name]
                     named == IF tool_custom.name # "none"
                              THEN [tool EXCEPT !.name = tool_custom.name]
                              ELSE tool
                 IN IF ~include_disabled /\ tool.name \in disabled
                    THEN F(Tail(ts))
                    ELSE IF tool_custom.description # "none"
                         THEN <<[named EXCEPT
                                   !.description = tool_custom.description]>>
                                  \o F(Tail(ts))
                         ELSE <<named>> \o F(Tail(ts))
    IN F(tools)

filter_tools_response(tools, disabled, custom, include_disabled) ==
    LET RECURSIVE F(_)
        F(ts) ==
            IF ts = <<>> THEN <<>>
            ELSE LET tool == Head(ts)
                     tool_custom == custom[tool.name]
                 IN IF ~include_disabled /\ tool.name \in disabled
                    THEN F(Tail(ts))
                    ELSE IF tool_custom.description # "none"
                         THEN <<[tool EXCEPT
                                   !.description = tool_custom.description]>>
                                  \o F(Tail(ts))
                         ELSE <<tool>> \o F(Tail(ts))
    IN F(tools)

\* filter_tools_response with the settings of this bridge's provider.
FilterTools(tools, include_disabled) ==
    filter_tools_response(
        tools, disabled_tools,
        [t \in BridgeToolNames |-> Meta("none", custom_tools[t])],
        include_disabled)

\* pipe_process_to_websocket, lines 88-103: is the line a tools/list
\* response the pipe filters?  (request_id must be truthy.)
IsFiltered(data) == data.json /\ data.id # 0 /\ data.hasTools

PoppedFlag(data) == pipe_pending[data.id] = "true"

\* pipe_process_to_websocket, lines 88-113: the frames sent for one line.
\* A line that is not JSON raises JSONDecodeError, which is passed over,
\* and the line is sent as it is.
P2WDropsNoise(data) ==
    IF ~data.json THEN <<>>
    ELSE IF IsFiltered(data)
         THEN <<[data EXCEPT !.tools = FilterTools(data.tools, PoppedFlag(data))]>>
         ELSE <<data>>

P2WOutput(data) ==
    IF IsFiltered(data)
    THEN <<[data EXCEPT !.tools = FilterTools(data.tools, PoppedFlag(data))]>>
    ELSE <<data>>

\* The child writes a line on its stdout.
ChildWrite(line) ==
    /\ bpc = "piping"
    /\ process_alive
    /\ lines_written < MaxLines
    /\ stdout_buf' = Append(stdout_buf, line)
    /\ lines_written' = lines_written + 1
    /\ UNCHANGED <<bpc, reconnect_attempt, backoff, endpoint_id,
                   connection_status, connection_error, process_alive,
                   ws_sent, p2w, errpipe, pipe_pending, disabled_tools,
                   custom_tools, everOpened, authFailed>>
    /\ BridgeOnly

\* The child exits: its stdout and stderr reach end-of-stream.
ChildExit ==
    /\ bpc = "piping"
    /\ process_alive
    /\ process_alive' = FALSE
    /\ UNCHANGED <<bpc, reconnect_attempt, backoff, endpoint_id,
                   connection_status, connection_error, stdout_buf,
                   lines_written, ws_sent, p2w, errpipe, pipe_pending,
                   disabled_tools, custom_tools, everOpened, authFailed>>
    /\ BridgeOnly

\* pipe_process_to_websocket reads one line and sends it.
P2WRead ==
    /\ bpc = "piping"
    /\ p2w = "running"
    /\ stdout_buf # <<>>
    /\ LET data == Head(stdout_buf)
       IN /\ ws_sent' = ws_sent \o P2WOutput(data)
          /\ pipe_pending' =
                 IF IsFiltered(data)
                 THEN [pipe_pending EXCEPT ![data.id] = NoFlag]
                 ELSE pipe_pending
    /\ stdout_buf' = Tail(stdout_buf)
    /\ UNCHANGED <<bpc, reconnect_attempt, backoff, endpoint_id,
                   connection_status, connection_error, process_alive,
                   lines_written, p2w, errpipe, disabled_tools, custom_tools,
                   everOpened, authFailed>>
    /\ BridgeOnly

\* The supervisor is suspended at an await: the event loop runs the pipes,
\* those of a connection that is over included.
PipesMayRun == bpc \in {"piping", "sleeping", "connecting"}

\* pipe_process_to_websocket reads end-of-stream: "break", the coroutine
\* returns without an exception.
P2WEof ==
    /\ PipesMayRun
    /\ p2w = "running"
    /\ stdout_buf = <<>>
    /\ ~process_alive
    /\ p2w' = "ended"
    /\ UNCHANGED <<bpc, reconnect_attempt, backoff, endpoint_id,
                   connection_status, connection_error, process_alive,
                   stdout_buf, lines_written, ws_sent, errpipe, pipe_pending,
                   disabled_tools, custom_tools, everOpened, authFailed>>
    /\ BridgeOnly

\* pipe_process_stderr_to_terminal reads end-of-stream and returns.
ErrEof ==
    /\ PipesMayRun
    /\ errpipe = "running"
    /\ ~process_alive
    /\ errpipe' = "ended"
    /\ UNCHANGED <<bpc, reconnect_attempt, backoff, endpoint_id,
                   connection_status, connection_error, process_alive,
                   stdout_buf, lines_written, ws_sent, p2w, pipe_pending,
                   disabled_tools, custom_tools, everOpened, authFailed>>
    /\ BridgeOnly

\* pipe_websocket_to_process, lines 44-52: the include_disabled flag of a
\* tools/list request is kept under its id, when the id is truthy.
Tracked(frame) ==
    IF frame.method = "tools/list" /\ frame.id # 0
    THEN [pipe_pending EXCEPT
            ![frame.id] = IF frame.include_disabled THEN "true" ELSE "false"]
    ELSE pipe_pending

\* pipe_websocket_to_process receives a frame and writes it to the child's
\* stdin; the write raises BrokenPipeError when the child has exited.
WsRecv(frame) ==
    /\ bpc = "piping"
    /\ pipe_pending' = Tracked(frame)
    /\ IF process_alive
       THEN UNCHANGED <<bpc, reconnect_attempt, backoff, endpoint_id,
                        connection_status, connection_error, process_alive,
                        stdout_buf, lines_written, p2w, errpipe,
                        ws_sent, disabled_tools, custom_tools, authFailed>>
       ELSE /\ reconnect_attempt < MaxAttempt
            /\ Raise("pipe")
    /\ UNCHANGED everOpened
    /\ BridgeOnly

\* The WebSocket is closed by the peer or the network: recv raises
\* ConnectionClosed.
WsDrop ==
    /\ bpc = "piping"
    /\ reconnect_attempt < MaxAttempt
    /\ Raise("closed")
    /\ UNCHANGED <<pipe_pending, everOpened>>
    /\ BridgeOnly

\* task.cancel(): CancelledError is raised at the await the supervisor is
\* suspended on.
Cancel ==
    /\ bpc \in {"sleeping", "connecting", "piping"}
    /\ Raise("cancelled")
    /\ UNCHANGED <<pipe_pending, everOpened>>
    /\ BridgeOnly

BridgeStep ==
    \/ LoopTop
    \/ SleepDone
    \/ \E exc \in {"refused", "auth"} : ConnectFail(exc)
    \/ ConnectOk
    \/ SpawnFail
    \/ SpawnRefused
    \/ \E line \in StdoutLines : ChildWrite(line)
    \/ ChildExit
    \/ P2WRead
    \/ P2WEof
    \/ ErrEof
    \/ \E frame \in WsFrames : WsRecv(frame)
    \/ WsDrop
    \/ Cancel

\* What the event loop and the network do without being asked: the loop
\* runs a task that is ready, a sleep ends, a dial succeeds or fails.
BridgeProgress ==
    \/ LoopTop
    \/ SleepDone
    \/ \E exc \in {"refused", "auth"} : ConnectFail(exc)
    \/ ConnectOk
    \/ SpawnFail
    \/ P2WRead
    \/ P2WEof
    \/ ErrEof

(***************************************************************************)
(*                          THE AGGREGATING HUB                            *)
(***************************************************************************)

Servers == {"P1", "P2"}

\* The frontend sockets; where one frontend suffices, it is f1.
Frontends == {"f1", "f2"}

OneFrontend == {"f1"}

HubToolNames == {"a", "b"}

\* A tool as a tools/list response lists it.
WireTool(n, d, s) == [name |-> n, description |-> d, inputSchema |-> s]

\* Tool lists a provider may answer tools/list with.
HubToolLists ==
    {<<WireTool("a", "d1", "s1")>>, <<WireTool("b", "d2", "s2")>>}

\* Provider sockets; two of them may connect under the same server name.
Conns == {"c1", "c2"}

\* Bound of the hub model: requests waiting at a provider.
MaxInbox == 2

NoConn == "none"

NoServer == "none"

\* A name shown under the provider's name alone.
Unprefixed(server, tool) == server

\* get_cached_aggregated_tools, line 358: f"{server_name}.{tool_name}"
Prefixed(server, tool) == server \o "." \o tool

RegistryKeys ==
    HubToolNames \cup {Prefixed(s, t) : s \in Servers, t \in HubToolNames}

\* The ids of the requests of a frontend: two where the hub has one
\* provider socket, one where it has two.
FrontIds == {"i1", "i2"}

HubIds == {"i1"}

NoReply ==
    [kind |-> "none", frontend |-> "none", tools |-> <<>>, to |-> {},
     id |-> "none"]

Reply(k, f, tools, to) ==
    [kind |-> k, frontend |-> f, tools |-> tools, to |-> to, id |-> "none"]

\* The frame carries the id request_id: "id": request_id.
WithId(frame, id) == [frame EXCEPT !.id = id]

\* register_mcp, line 60, and handle_mcp_message, line 302: the ids of
\* the hub's own requests to a provider.
HubInitId(server_name) == "hub_init_" \o server_name

HubToolsId(server_name) == "hub_tools_" \o server_name

\* A frame sent to the provider socket c.
Frame(c, method, id) == [to |-> c, method |-> method, id |-> id]

\* handle_connection, line 424: the frame of a provider is sent to every
\* frontend socket; the frontends of the model stay connected.
NoForward == [id |-> "none", to |-> {}]

Forward(id) == [id |-> id, to |-> Frontends]

\* The frames of one send to each socket of a set.
RECURSIVE ToEach(_, _, _)
ToEach(conns, method, id) ==
    IF conns = {} THEN <<>>
    ELSE LET c == CHOOSE x \in conns : TRUE
         IN <<Frame(c, method, id[c])>> \o ToEach(conns \ {c}, method, id)

InitHub ==
    /\ conn_name = [c \in Conns |-> NoServer]
    /\ mcp_tools = [s \in Servers |-> NoConn]
    /\ server_tools = <<>>
    /\ tool_registry = [k \in RegistryKeys |-> NoServer]
    /\ pending_inits = {}
    /\ pending_tools_requests = [s \in Servers |-> "none"]
    /\ inbox = [c \in Conns |-> <<>>]
    /\ fpc = [f \in Frontends |-> "idle"]
    /\ events = [f \in Frontends |-> [s \in Servers |-> "none"]]
    /\ request_id = [f \in Frontends |-> "none"]
    /\ reply = NoReply
    /\ sent = <<>>
    /\ forwarded = NoForward

\* A Python dict that keeps insertion order, as a sequence of entries.
DictHas(d, k) == \E i \in DOMAIN d : d[i].server = k

DictGet(d, k) == d[CHOOSE i \in DOMAIN d : d[i].server = k].tools

DictSet(d, k, v) ==
    IF DictHas(d, k)
    THEN [i \in DOMAIN d |-> IF d[i].server = k THEN [server |-> k, tools |-> v]
                                                 ELSE d[i]]
    ELSE Append(d, [server |-> k, tools |-> v])

DictDel(d, k) == SelectSeq(d, LAMBDA e : e.server # k)

\* The names of the tools of a list.
ToolNames(tools) == {tools[i].name : i \in DOMAIN tools}

ConnectedServers == {s \in Servers : mcp_tools[s] # NoConn}

\* unregister_mcp, lines 85-90: the registry entries it removes are those
\* under the names of the provider's cached tools that the provider owns.
PrunedRegistry(reg, d, server_name) ==
    IF DictHas(d, server_name)
    THEN [k \in RegistryKeys |->
            IF k \in ToolNames(DictGet(d, server_name)) /\ reg[k] = server_name
            THEN NoServer ELSE reg[k]]
    ELSE reg

\* handle_mcp_message, lines 319-322: every tool of the response is
\* recorded under its own name, whoever owned that name before.
Registered(reg, tools, server_name) ==
    [k \in RegistryKeys |->
        IF k \in ToolNames(tools) THEN server_name ELSE reg[k]]

\* A description passed on as the provider gave it.
Unbracketed(server_name, description) == description

\* get_cached_aggregated_tools, lines 361 and 365:
\* f"[{server_name}] {tool.get('description', '')}"
Bracketed(server_name, description) ==
    "[" \o server_name \o "] " \o description

\* get_cached_aggregated_tools, lines 347-369, over the cache flattened to
\* (server, tool) pairs in iteration order: the tools returned, each a
\* copy with the name it is shown under and the description prefixed, and
\* the registry it leaves.
Flat(d) ==
    LET RECURSIVE F(_)
        F(i) == IF i > Len(d) THEN <<>>
                ELSE [j \in DOMAIN d[i].tools |->
                         <<d[i].server, d[i].tools[j]>>] \o F(i + 1)
    IN F(1)

RECURSIVE Aggregate(_, _, _, _)
Aggregate(pairs, seen, reg, out) ==
    IF pairs = <<>> THEN [tools |-> out, registry |-> reg]
    ELSE LET server_name == Head(pairs)[1]
             tool == Head(pairs)[2]
             tool_name == tool.name
             shown == IF tool_name \in seen
                      THEN Prefixed(server_name, tool_name)
                      ELSE tool_name
             tool_copy ==
                 [tool EXCEPT
                     !.name = shown,
                     !.description = Bracketed(server_name, tool.description)]
         IN Aggregate(Tail(pairs), seen \cup {tool_name},
                      [reg EXCEPT ![shown] = server_name],
                      Append(out, tool_copy))

get_cached_aggregated_tools(d, reg) == Aggregate(Flat(d), {}, reg, <<>>)

\* refresh_all_tools, line 130; the suffix id(self) is one value for the
\* life of the hub.
RefreshId(server_name) == "refresh_tools_" \o server_name

\* The id of a request of the hub that waits at a provider.
RequestId(kind, server_name) ==
    CASE kind = "init" -> HubInitId(server_name)
      [] kind = "hub_tools" -> HubToolsId(server_name)
      [] OTHER -> RefreshId(server_name)

\* Bound: a request is sent to a provider only while its queue has room.
HasRoom(c) == Len(inbox[c]) < MaxInbox

\* register_mcp, lines 49-79: the socket takes the place of the name in
\* mcp_tools, the cache entry of the name is emptied and initialize is sent.
register_mcp(c, server_name) ==
    /\ conn_name' = [conn_name EXCEPT ![c] = server_name]
    /\ mcp_tools' = [mcp_tools EXCEPT ![server_name] = c]
    /\ server_tools' = DictSet(server_tools, server_name, <<>>)
    /\ pending_inits' = pending_inits \cup {server_name}
    /\ inbox' = [inbox EXCEPT ![c] = <<"init">>]
    /\ sent' = <<Frame(c, "initialize", HubInitId(server_name))>>
    /\ reply' = NoReply
    /\ forwarded' = NoForward
    /\ UNCHANGED <<tool_registry, pending_tools_requests, fpc, events,
                   request_id>>

\* handle_connection (provider role) of a hub that asks no token.
ProviderConnect(c, server_name) ==
    /\ conn_name[c] = NoServer
    /\ register_mcp(c, server_name)
    /\ HubOnly

\* The provider socket closes: handle_connection's finally calls
\* unregister_mcp with the socket's server name.
ProviderClose(c) ==
    /\ conn_name[c] # NoServer
    /\ LET server_name == conn_name[c]
       IN /\ mcp_tools' = [mcp_tools EXCEPT ![server_name] = NoConn]
          /\ tool_registry' =
                 PrunedRegistry(tool_registry, server_tools, server_name)
          /\ server_tools' = DictDel(server_tools, server_name)
    /\ conn_name' = [conn_name EXCEPT ![c] = NoServer]
    /\ inbox' = [inbox EXCEPT ![c] = <<>>]
    /\ reply' = NoReply
    /\ sent' = <<>>
    /\ forwarded' = NoForward
    /\ UNCHANGED <<pending_inits, pending_tools_requests, fpc, events,
                   request_id>>
    /\ HubOnly

\* The provider answers the initialize request; handle_mcp_message, lines
\* 281-310: on a result the hub sends notifications/initialized and the
\* tools/list request hub_tools_<name> to the socket registered under the
\* name.
InitResponse(c, ok) ==
    /\ conn_name[c] # NoServer
    /\ inbox[c] # <<>>
    /\ Head(inbox[c]) = "init"
    /\ ok /\ mcp_tools[conn_name[c]] \notin {NoConn, c}
          => HasRoom(mcp_tools[conn_name[c]])
    /\ LET server_name == conn_name[c]
           rest == [inbox EXCEPT ![c] = Tail(inbox[c])]
           to == mcp_tools[server_name]
       IN /\ IF ok
             THEN /\ pending_inits' = pending_inits \ {server_name}
                  /\ inbox' =
                         IF to # NoConn
                         THEN [rest EXCEPT ![to] = Append(rest[to], "hub_tools")]
                         ELSE rest
                  /\ sent' =
                         IF to # NoConn
                         THEN <<Frame(to, "notifications/initialized", "none"),
                                Frame(to, "tools/list", HubToolsId(server_name))>>
                         ELSE <<>>
             ELSE /\ inbox' = rest
                  /\ sent' = <<>>
                  /\ UNCHANGED pending_inits
          /\ forwarded' = Forward(HubInitId(server_name))
    /\ reply' = NoReply
    /\ UNCHANGED <<conn_name, mcp_tools, server_tools, tool_registry,
                   pending_tools_requests, fpc, events, request_id>>
    /\ HubOnly

\* The provider answers a tools/list request with a result holding tools;
\* handle_mcp_message, lines 313-329.
ToolsResponse(c, tools) ==
    /\ conn_name[c] # NoServer
    /\ inbox[c] # <<>>
    /\ Head(inbox[c]) \in {"hub_tools", "refresh"}
    /\ LET server_name == conn_name[c]
           owner == pending_tools_requests[server_name]
       IN /\ server_tools' = DictSet(server_tools, server_name, tools)
          /\ tool_registry' = Registered(tool_registry, tools, server_name)
          /\ events' =
                 IF Head(inbox[c]) = "refresh" /\ owner # "none"
                 THEN [events EXCEPT ![owner][server_name] = "set"]
                 ELSE events
          /\ forwarded' = Forward(RequestId(Head(inbox[c]), server_name))
    /\ inbox' = [inbox EXCEPT ![c] = Tail(inbox[c])]
    /\ reply' = NoReply
    /\ sent' = <<>>
    /\ UNCHANGED <<conn_name, mcp_tools, pending_inits,
                   pending_tools_requests, fpc, request_id>>
    /\ HubOnly

\* The provider answers a request with an error or with a result that
\* holds no tools: handle_mcp_message caches nothing.
PlainResponse(c) ==
    /\ conn_name[c] # NoServer
    /\ inbox[c] # <<>>
    /\ Head(inbox[c]) \in {"hub_tools", "refresh"}
    /\ inbox' = [inbox EXCEPT ![c] = Tail(inbox[c])]
    /\ reply' = NoReply
    /\ sent' = <<>>
    /\ forwarded' = Forward(RequestId(Head(inbox[c]), conn_name[c]))
    /\ UNCHANGED <<conn_name, mcp_tools, server_tools, tool_registry,
                   pending_inits, pending_tools_requests, fpc, events,
                   request_id>>
    /\ HubOnly

\* Frames of a provider that are no JSON-RPC object: text that is not
\* JSON, a JSON string, number or array, an object whose result is null.
MalformedKinds == {"text", "string", "number", "array", "null result"}

\* handle_mcp_message, lines 276-278 and 333: json.loads raises
\* JSONDecodeError on text, which is caught; msg.get on a value that is no
\* object raises AttributeError and "'tools' in None" raises TypeError,
\* which are not.
HandleMalformed(kind) == IF kind = "text" THEN "ignored" ELSE "raises"

\* A provider sends a frame that is no JSON-RPC object; handle_connection,
\* lines 418-428: a frame handle_mcp_message returns from is forwarded to
\* the frontends, an exception it raises leaves the loop, the finally
\* clause unregisters the name and the socket is closed.
MalformedFrame(c, kind) ==
    /\ conn_name[c] # NoServer
    /\ IF HandleMalformed(kind) = "ignored"
       THEN /\ forwarded' = Forward("none")
            /\ reply' = NoReply
            /\ sent' = <<>>
            /\ UNCHANGED <<conn_name, mcp_tools, server_tools, tool_registry,
                           pending_inits, pending_tools_requests, inbox, fpc,
                           events, request_id>>
            /\ HubOnly
       ELSE ProviderClose(c)

\* The answer of handle_browser_message to tools/list, lines 235-241.
AnswerToolsList(f, id) ==
    LET agg == get_cached_aggregated_tools(server_tools, tool_registry)
    IN /\ tool_registry' = agg.registry
       /\ reply' = WithId(Reply("tools", f, agg.tools, {}), id)
       /\ forwarded' = NoForward

\* A frontend sends tools/list: handle_browser_message calls
\* refresh_all_tools, lines 113-145, which clears the cache and the
\* registry, asks every provider, and waits; with no provider it returns
\* at once.
FrontendToolsList(f, id) ==
    /\ fpc[f] = "idle"
    /\ IF ConnectedServers = {}
       THEN /\ UNCHANGED <<server_tools, pending_tools_requests, inbox, fpc,
                           events, request_id>>
            /\ sent' = <<>>
            /\ AnswerToolsList(f, id)
       ELSE /\ \A s \in ConnectedServers : HasRoom(mcp_tools[s])
            /\ server_tools' = <<>>
            /\ tool_registry' = [k \in RegistryKeys |-> NoServer]
            /\ events' = [events EXCEPT ![f] =
                   [s \in Servers |->
                       IF s \in ConnectedServers THEN "unset" ELSE "none"]]
            /\ pending_tools_requests' =
                   [s \in Servers |->
                       IF s \in ConnectedServers THEN f
                       ELSE pending_tools_requests[s]]
            /\ inbox' = [c \in Conns |->
                   IF \E s \in ConnectedServers : mcp_tools[s] = c
                   THEN Append(inbox[c], "refresh") ELSE inbox[c]]
            /\ fpc' = [fpc EXCEPT ![f] = "refreshing"]
            /\ request_id' = [request_id EXCEPT ![f] = id]
            /\ sent' = ToEach({mcp_tools[s] : s \in ConnectedServers},
                              "tools/list",
                              [c \in Conns |-> RefreshId(conn_name[c])])
            /\ reply' = NoReply
            /\ forwarded' = NoForward
    /\ UNCHANGED <<conn_name, mcp_tools, pending_inits>>
    /\ HubOnly

\* refresh_all_tools, lines 156-159, and the answer.
FinishRefresh(f) ==
    /\ pending_tools_requests' = [s \in Servers |-> "none"]
    /\ events' = [events EXCEPT ![f] = [s \in Servers |-> "none"]]
    /\ fpc' = [fpc EXCEPT ![f] = "idle"]
    /\ request_id' = [request_id EXCEPT ![f] = "none"]
    /\ sent' = <<>>
    /\ AnswerToolsList(f, request_id[f])
    /\ UNCHANGED <<conn_name, mcp_tools, server_tools, pending_inits, inbox>>

\* Every event of the refresh is set: the gather completes.
RefreshAnswered(f) ==
    /\ fpc[f] = "refreshing"
    /\ \A s \in Servers : events[f][s] # "unset"
    /\ FinishRefresh(f)
    /\ HubOnly

\* The 3 s ceiling of the refresh passes first.
RefreshTimeout(f) ==
    /\ fpc[f] = "refreshing"
    /\ \E s \in Servers : events[f][s] = "unset"
    /\ FinishRefresh(f)
    /\ HubOnly

\* handle_connection, lines 446-457: a frame that handle_browser_message
\* did not handle is sent to every provider; with none, or when every
\* send fails, the frontend gets error -32000, which carries no id.
Unhandled(f, id, method) ==
    LET all == {mcp_tools[s] : s \in ConnectedServers}
    IN /\ reply' = IF all = {}
                   THEN Reply("error -32000", f, <<>>, {})
                   ELSE WithId(Reply("broadcast", f, <<>>, all), id)
       /\ sent' = ToEach(all, method, [c \in Conns |-> id])

\* A frontend sends tools/call: handle_browser_message, lines 246-264,
\* and forward_to_mcp, lines 162-177.  A name the registry does not know is
\* answered with error -32601; a frame for a known name is sent to the
\* socket of its owner, and when the owner is not in mcp_tools
\* forward_to_mcp returns False and the frame is not handled.
FrontendToolsCall(f, id, tool_name) ==
    /\ fpc[f] = "idle"
    /\ LET server_name == tool_registry[tool_name]
       IN IF server_name = NoServer
          THEN /\ reply' = WithId(Reply("error -32601", f, <<>>, {}), id)
               /\ sent' = <<>>
          ELSE IF mcp_tools[server_name] # NoConn
               THEN /\ reply' = WithId(Reply("routed", f, <<>>,
                                            {mcp_tools[server_name]}), id)
                    /\ sent' = <<Frame(mcp_tools[server_name],
                                       "tools/call", id)>>
               ELSE Unhandled(f, id, "tools/call")
    /\ forwarded' = NoForward
    /\ UNCHANGED <<conn_name, mcp_tools, server_tools, tool_registry,
                   pending_inits, pending_tools_requests, inbox, fpc, events,
                   request_id>>
    /\ HubOnly

\* The methods of a frontend's frame, tools/list and tools/call apart.
FrontMethods == {"initialize", "notifications/initialized", "ping"}

\* handle_browser_message takes every frame for an unhandled one.
InterceptsNothing(method) == "unhandled"

\* handle_browser_message, lines 205-227: initialize is answered by the
\* hub itself, notifications/initialized is absorbed; line 267: another
\* method is not handled.
Intercepts(method) ==
    CASE method = "initialize" -> "answered"
      [] method = "notifications/initialized" -> "absorbed"
      [] OTHER -> "unhandled"

\* A frontend sends a frame of another method than tools/list and
\* tools/call.
FrontendFrame(f, id, method) ==
    /\ fpc[f] = "idle"
    /\ CASE Intercepts(method) = "answered" ->
              /\ reply' = WithId(Reply("initialize result", f, <<>>, {}), id)
              /\ sent' = <<>>
         [] Intercepts(method) = "absorbed" ->
              /\ reply' = NoReply
              /\ sent' = <<>>
         [] OTHER -> Unhandled(f, id, method)
    /\ forwarded' = NoForward
    /\ UNCHANGED <<conn_name, mcp_tools, server_tools, tool_registry,
                   pending_inits, pending_tools_requests, inbox, fpc, events,
                   request_id>>
    /\ HubOnly

\* The hub with two provider sockets.  The frames of a frontend that
\* FrontendFrame takes leave the maps of the hub alone; they are taken
\* where the hub has one provider socket.
HubStep ==
    \/ \E c \in Conns, s \in Servers : ProviderConnect(c, s)
    \/ \E c \in Conns : ProviderClose(c)
    \/ \E c \in Conns, ok \in BOOLEAN : InitResponse(c, ok)
    \/ \E c \in Conns, tools \in HubToolLists : ToolsResponse(c, tools)
    \/ \E c \in Conns : PlainResponse(c)
    \/ \E f \in OneFrontend, id \in HubIds : FrontendToolsList(f, id)
    \/ \E f \in OneFrontend : RefreshAnswered(f)
    \/ \E f \in OneFrontend : RefreshTimeout(f)
    \/ \E f \in OneFrontend, id \in HubIds, t \in RegistryKeys :
           FrontendToolsCall(f, id, t)

\* The hub with one provider socket, and every frame of a frontend.
OneConn == "c1"

OneSocketStep ==
    \/ \E s \in Servers : ProviderConnect(OneConn, s)
    \/ ProviderClose(OneConn)
    \/ \E ok \in BOOLEAN : InitResponse(OneConn, ok)
    \/ \E tools \in HubToolLists : ToolsResponse(OneConn, tools)
    \/ PlainResponse(OneConn)
    \/ \E f \in OneFrontend, id \in FrontIds : FrontendToolsList(f, id)
    \/ \E f \in OneFrontend : RefreshAnswered(f)
    \/ \E f \in OneFrontend : RefreshTimeout(f)
    \/ \E f \in OneFrontend, id \in FrontIds, t \in RegistryKeys :
           FrontendToolsCall(f, id, t)
    \/ \E f \in OneFrontend, id \in FrontIds, method \in FrontMethods :
           FrontendFrame(f, id, method)
    \/ \E kind \in MalformedKinds : MalformedFrame(OneConn, kind)

\* The tools a provider lists: here the same at every tools/list.
Advertised(server_name) ==
    IF server_name = "P1" THEN <<WireTool("a", "d1", "s1")>>
    ELSE <<WireTool("b", "d2", "s2")>>

\* The hub with one provider socket, whose provider answers every
\* tools/list with its tools, and two frontends.
TwoFrontStep ==
    \/ \E s \in Servers : ProviderConnect(OneConn, s)
    \/ ProviderClose(OneConn)
    \/ \E ok \in BOOLEAN : InitResponse(OneConn, ok)
    \/ ToolsResponse(OneConn, Advertised(conn_name[OneConn]))
    \/ \E f \in Frontends, id \in HubIds : FrontendToolsList(f, id)
    \/ \E f \in Frontends : RefreshAnswered(f)
    \/ \E f \in Frontends : RefreshTimeout(f)
    \/ \E f \in Frontends, id \in HubIds, t \in RegistryKeys :
           FrontendToolsCall(f, id, t)

(***************************************************************************)
(*                     THE HUB ADMITS A SOCKET THAT DIALS                  *)
(***************************************************************************)

\* The path of a dial: the part before "?" as its characters, the part
\* after it as its pieces between "&", each piece as its parts between "=".
Path(base, query) == [base |-> base, query |-> query]

McpBase == <<"/", "m", "c", "p">>

Bases == {McpBase, McpBase \o <<"x">>, <<"/">>}

\* The token of the hub's environment when it has one, and another.
HubToken == "T"

Pieces ==
    {<<"server", "P1">>, <<"server", "P2">>, <<"token", HubToken>>,
     <<"token", "X">>, <<"token", HubToken, "">>, <<"debug">>}

\* Bound: the pieces of a query.
MaxPieces == 2

Queries ==
    UNION {[1..n -> Pieces] : n \in 0..MaxPieces}

Paths == {Path(base, query) : base \in Bases, query \in Queries}

\* handle_connection, lines 381-386: the pieces that hold "=" are split
\* at "=" and dict() takes the pairs; a piece of more than two parts makes
\* dict() raise ValueError, which leaves params empty.
Params(path) ==
    LET split == SelectSeq(path.query, LAMBDA piece : Len(piece) >= 2)
    IN IF \E i \in DOMAIN split : Len(split[i]) # 2 THEN <<>> ELSE split

\* dict.get: the value of the last pair of the key, or the default.
ParamGet(params, key, default) ==
    LET at == {i \in DOMAIN params : params[i][1] = key}
    IN IF at = {} THEN default
       ELSE params[CHOOSE i \in at : \A j \in at : j <= i][2]

\* handle_connection, lines 395-402.
ClientType(path) ==
    IF Len(path.base) >= 4 /\ SubSeq(path.base, 1, 4) = McpBase THEN "mcp"
    ELSE IF ParamGet(Params(path), "server", "absent") # "absent" THEN "mcp"
    ELSE "browser"

\* A hub that takes every token.
TokenUnchecked(params, token) == TRUE

\* handle_connection, lines 408-410.
TokenAccepted(params, token) ==
    token = "" \/ ParamGet(params, "token", "") = token

NotDialled == [c \in Conns |-> "none"]

InitDial ==
    /\ MCP_WS_TOKEN \in {"", HubToken}
    /\ dialled = NotDialled

\* The hub of the other parts of the model has no token in its
\* environment.
DialIdle ==
    /\ MCP_WS_TOKEN = ""
    /\ dialled = NotDialled

\* A socket dials the hub: handle_connection, lines 378-416 and 430-436.
\* Bound: a provider that is registered has a name of Servers.
HandleConnection(c, path) ==
    /\ conn_name[c] = NoServer
    /\ dialled[c] = "none"
    /\ LET params == Params(path)
           server_name == ParamGet(params, "server", "unknown")
       IN IF ClientType(path) = "mcp"
          THEN IF TokenAccepted(params, MCP_WS_TOKEN)
               THEN /\ server_name \in Servers
                    /\ register_mcp(c, server_name)
                    /\ UNCHANGED dialled
               ELSE /\ dialled' = [dialled EXCEPT ![c] = "closed 4001"]
                    /\ reply' = NoReply
                    /\ sent' = <<>>
                    /\ forwarded' = NoForward
                    /\ UNCHANGED <<conn_name, mcp_tools, server_tools,
                                   tool_registry, pending_inits,
                                   pending_tools_requests, inbox, fpc, events,
                                   request_id>>
          ELSE /\ dialled' = [dialled EXCEPT ![c] = "browser"]
               /\ reply' = NoReply
               /\ sent' = <<>>
               /\ forwarded' = NoForward
               /\ UNCHANGED <<conn_name, mcp_tools, server_tools,
                              tool_registry, pending_inits,
                              pending_tools_requests, inbox, fpc, events,
                              request_id>>
    /\ UNCHANGED MCP_WS_TOKEN
    /\ UNCHANGED <<varsBridge, varsRec, varsList, varsDb, varsPath, varsTwo>>

\* A socket that is no provider goes away, and may dial again.
SocketGone(c) ==
    /\ dialled[c] # "none"
    /\ dialled' = [dialled EXCEPT ![c] = "none"]
    /\ UNCHANGED MCP_WS_TOKEN
    /\ UNCHANGED <<varsBridge, varsHub, varsRec, varsList, varsDb, varsPath,
                   varsTwo>>

DialStep ==
    \/ \E c \in Conns, path \in Paths : HandleConnection(c, path)
    \/ \E c \in Conns : SocketGone(c)
    \/ \E c \in Conns : ProviderClose(c)
    \/ \E c \in Conns, ok \in BOOLEAN : InitResponse(c, ok)

(***************************************************************************)
(*        A TOOLS/LIST OF A FRONTEND, THROUGH THE HUB AND ONE BRIDGE       *)
(***************************************************************************)

\* The provider of the round trip: the only one connected to the hub.
RtProvider == "P1"

\* Tool lists the provider's child may answer tools/list with.
RtToolLists ==
    {<<>>,
     <<WireTool("a", "d1", "s1")>>,
     <<WireTool("b", "d2", "s2")>>,
     <<WireTool("a", "d1", "s1"), WireTool("b", "d2", "s2")>>}

\* What the tool settings may hold for a tool.
RtMetas == {Meta(n, d) : n \in {"none", "x"}, d \in {"none", "y"}}

\* params.include_disabled of a request: missing, true or false.
RtFlags == {NoFlag, "true", "false"}

NoFrame == [id |-> "none", include_disabled |-> NoFlag, tools |-> <<>>]

\* The provider is connected, its cache entry is the empty list of
\* register_mcp; the tools of the child and the tool settings are any.
InitList ==
    /\ rt_pc = "idle"
    /\ rt_tools \in RtToolLists
    /\ rt_disabled \in SUBSET HubToolNames
    /\ rt_custom \in [HubToolNames -> RtMetas]
    /\ rt_include = NoFlag
    /\ rt_request = NoFrame
    /\ rt_pending = NoFlag
    /\ rt_frame = NoFrame
    /\ rt_cache = DictSet(<<>>, RtProvider, <<>>)
    /\ rt_event = "none"
    /\ rt_reply = NoReply

\* The round trip as the other parts of the model leave it: not begun.
ListIdle ==
    /\ InitList
    /\ rt_tools = <<>>
    /\ rt_disabled = {}
    /\ rt_custom = [t \in HubToolNames |-> Meta("none", "none")]

\* The frontend sends tools/list: handle_browser_message, line 234, and
\* refresh_all_tools, lines 123-141.  The request sent to the provider
\* has "params": {}, whatever the params of the frontend's request.
RtFrontendToolsList(include_disabled) ==
    /\ rt_pc = "idle"
    /\ rt_include' = include_disabled
    /\ rt_cache' = <<>>
    /\ rt_event' = "unset"
    /\ rt_request' = [NoFrame EXCEPT !.id = RefreshId(RtProvider)]
    /\ rt_pc' = "asked"
    /\ UNCHANGED <<rt_tools, rt_disabled, rt_custom, rt_pending, rt_frame,
                   rt_reply>>
    /\ ListOnly

\* pipe_websocket_to_process, lines 44-57: the bridge records the flag of
\* the request under its id, False when the params have none, and writes
\* the request to the child.
RtBridgeTracks ==
    /\ rt_pc = "asked"
    /\ rt_pending' =
           IF rt_request.include_disabled = "true" THEN "true" ELSE "false"
    /\ rt_pc' = "tracked"
    /\ UNCHANGED <<rt_tools, rt_disabled, rt_custom, rt_include, rt_request,
                   rt_frame, rt_cache, rt_event, rt_reply>>
    /\ ListOnly

\* The child answers the request with its tools, on its stdout.
RtChildAnswers ==
    /\ rt_pc = "tracked"
    /\ rt_pc' = "answered"
    /\ UNCHANGED <<rt_tools, rt_disabled, rt_custom, rt_include, rt_request,
                   rt_pending, rt_frame, rt_cache, rt_event, rt_reply>>
    /\ ListOnly

\* pipe_process_to_websocket, lines 88-113: the flag is popped, the
\* response is filtered and sent to the hub.
RtBridgeFilters ==
    /\ rt_pc = "answered"
    /\ rt_frame' =
           [id |-> rt_request.id, include_disabled |-> NoFlag,
            tools |-> filter_tools_response(
                          rt_tools, rt_disabled, rt_custom,
                          rt_pending = "true")]
    /\ rt_pending' = NoFlag
    /\ rt_pc' = "sent"
    /\ UNCHANGED <<rt_tools, rt_disabled, rt_custom, rt_include, rt_request,
                   rt_cache, rt_event, rt_reply>>
    /\ ListOnly

\* handle_mcp_message, lines 313-329: the hub caches the tools of the
\* response and sets the event of the refresh.
RtHubCaches ==
    /\ rt_pc = "sent"
    /\ rt_cache' = DictSet(rt_cache, RtProvider, rt_frame.tools)
    /\ rt_event' = "set"
    /\ rt_pc' = "recorded"
    /\ UNCHANGED <<rt_tools, rt_disabled, rt_custom, rt_include, rt_request,
                   rt_pending, rt_frame, rt_reply>>
    /\ ListOnly

\* handle_browser_message, lines 235-241: the answer to the frontend.
RtAnswer ==
    /\ rt_reply' =
           Reply("tools", "f1",
                 get_cached_aggregated_tools(
                     rt_cache, [k \in RegistryKeys |-> NoServer]).tools,
                 {})
    /\ rt_pc' = "done"
    /\ UNCHANGED <<rt_tools, rt_disabled, rt_custom, rt_include, rt_request,
                   rt_pending, rt_frame, rt_cache, rt_event>>

\* The event is set: the gather of the refresh completes.
RtRefreshAnswered ==
    /\ rt_pc = "recorded"
    /\ RtAnswer
    /\ ListOnly

\* The 3 s ceiling of the refresh passes before the response is cached.
RtRefreshTimeout ==
    /\ rt_pc \in {"asked", "tracked", "answered", "sent"}
    /\ RtAnswer
    /\ ListOnly

ListStep ==
    \/ \E include_disabled \in RtFlags : RtFrontendToolsList(include_disabled)
    \/ RtBridgeTracks
    \/ RtChildAnswers
    \/ RtBridgeFilters
    \/ RtHubCaches
    \/ RtRefreshAnswered
    \/ RtRefreshTimeout

(***************************************************************************)
(*                    THE RECONCILER OF THE BRIDGE HOST                    *)
(***************************************************************************)

Endpoints == {"e1", "e2"}

Urls == {"u1", "u2"}

\* The servers of mcp_config.json, in the order of the file.
ServerOrder == <<"s1", "s2">>

ConfigServers == {"s1", "s2"}

\* Bounds of the reconciler model: Ably callbacks (on_endpoint_update) in
\* progress at a time, supervisor tasks alive at a time, Ably messages
\* received and edits of the config file.
MaxHandlers == 2
MaxTasks == 4
MaxEvents == 2
MaxEdits == 1

Handlers == 1 .. MaxHandlers

TaskIds == 1 .. MaxTasks

NoTask == 0

NoUrl == "none"

\* The key f"{endpoint_name}:{server}" of running_tasks, as a pair; the
\* endpoint names hold no ':'.
TaskKeys == Endpoints \X ConfigServers

FreeTask == [key |-> <<"-", "-">>, url |-> "-", st |-> "free"]

NewTask(key, url) == [key |-> key, url |-> url, st |-> "running"]

\* A message is handled by a new callback: the lowest slot that is free.
Arrives(h) ==
    /\ mpc \in {"sleep", "reload_wait"}
    /\ hpc[h] = "idle"
    /\ \A h2 \in Handlers : hpc[h2] = "idle" => h <= h2
    /\ n_events < MaxEvents
    /\ n_events' = n_events + 1
    /\ UNCHANGED n_edits

IdleLocal ==
    [name |-> "-", url |-> "-", to_cancel |-> <<>>, awaiting |-> NoTask,
     then_start |-> FALSE]

IdleMain ==
    [to_cancel |-> <<>>, awaiting |-> NoTask, new_enabled |-> {},
     added |-> {}]

InitRec ==
    /\ known_endpoints = [e \in Endpoints |-> NoUrl]
    /\ enabled \in (SUBSET ConfigServers) \ {{}}
    /\ cfg_enabled = enabled
    /\ cfg_changed = FALSE
    /\ running_tasks = [k \in TaskKeys |-> NoTask]
    /\ tasks = [i \in TaskIds |-> FreeTask]
    /\ hpc = [h \in Handlers |-> "idle"]
    /\ hl = [h \in Handlers |-> IdleLocal]
    /\ mpc = "startup"
    /\ ml = IdleMain
    /\ n_events = 0
    /\ n_edits = 0

FreeIds(ts) == {i \in TaskIds : ts[i].st = "free"}

MinFree(ts) == CHOOSE i \in FreeIds(ts) : \A j \in FreeIds(ts) : i <= j

\* asyncio.Task.cancel(): a task that is not done gets a CancelledError.
Cancelled(ts, id) ==
    IF ts[id].st = "running" THEN [ts EXCEPT ![id].st = "cancelling"] ELSE ts

\* Task objects nothing refers to any more are forgotten once done.
Collect(ts, run, hloc, mloc) ==
    LET refs == {run[k] : k \in TaskKeys}
                  \cup {hloc[h].awaiting : h \in Handlers}
                  \cup {mloc.awaiting}
                  \cup {mloc.to_cancel[i][2] : i \in DOMAIN mloc.to_cancel}
    IN [i \in TaskIds |->
          IF ts[i].st = "done" /\ i \notin refs THEN FreeTask ELSE ts[i]]

EnabledOrder(servers) == SelectSeq(ServerOrder, LAMBDA s : s \in servers)

KeysOrder ==
    <<<<"e1", "s1">>, <<"e1", "s2">>, <<"e2", "s1">>, <<"e2", "s2">>>>

\* _start_endpoint, lines 106-113: a task is created for each enabled
\* server whose key is not in running_tasks or holds a task that is done.
Needed(ts, run, key) == run[key] = NoTask \/ ts[run[key]].st = "done"

RECURSIVE StartServers(_, _, _, _, _)
StartServers(order, ts, run, name, url) ==
    IF order = <<>> THEN [tasks |-> ts, running |-> run]
    ELSE LET key == <<name, Head(order)>>
         IN IF Needed(ts, run, key) /\ FreeIds(ts) # {}
            THEN StartServers(Tail(order),
                     [ts EXCEPT ![MinFree(ts)] = NewTask(key, url)],
                     [run EXCEPT ![key] = MinFree(ts)], name, url)
            ELSE StartServers(Tail(order), ts, run, name, url)

\* Bound: the tasks _start_endpoint creates fit in the task table.
RoomToStart(ts, run, name, servers) ==
    Cardinality({s \in servers : Needed(ts, run, <<name, s>>)})
        <= Cardinality(FreeIds(ts))

\* _stop_endpoint, lines 63-66: the keys of the endpoint's tasks.
KeysOf(run, name) ==
    SelectSeq(KeysOrder, LAMBDA k : k[1] = name /\ run[k] # NoTask)

\* _stop_endpoint, lines 78-79, and what on_endpoint_update does after it.
AfterStop(ts, run, kn, name, url, then_start) ==
    LET kn1 == [kn EXCEPT ![name] = NoUrl]
        st == StartServers(EnabledOrder(enabled), ts, run, name, url)
    IN IF then_start
       THEN [tasks |-> st.tasks, running |-> st.running,
             known |-> [kn1 EXCEPT ![name] = url]]
       ELSE [tasks |-> ts, running |-> run, known |-> kn1]

\* The state a handler leaves: the maps, its position and its locals.
HandlerLeaves(h, ts, run, kn, pc, loc) ==
    /\ hpc' = [hpc EXCEPT ![h] = pc]
    /\ hl' = [hl EXCEPT ![h] = loc]
    /\ running_tasks' = run
    /\ known_endpoints' = kn
    /\ tasks' = Collect(ts, run, hl', ml)
    /\ UNCHANGED <<enabled, cfg_enabled, cfg_changed, mpc, ml>>

\* _stop_endpoint from its start to its first await, or to its end when the
\* endpoint has no task; then_start tells whether _start_endpoint follows.
StopAndMaybeStart(h, name, url, then_start) ==
    LET keys == KeysOf(running_tasks, name)
    IN IF keys = <<>>
       THEN LET a == AfterStop(tasks, running_tasks, known_endpoints, name,
                               url, then_start)
            IN /\ then_start
                    => RoomToStart(tasks, running_tasks, name, enabled)
               /\ HandlerLeaves(h, a.tasks, a.running, a.known, "idle",
                                IdleLocal)
       ELSE HandlerLeaves(h, Cancelled(tasks, running_tasks[Head(keys)]),
                running_tasks, known_endpoints, "stopping",
                [name |-> name, url |-> url, to_cancel |-> keys,
                 awaiting |-> running_tasks[Head(keys)],
                 then_start |-> then_start])

\* _start_endpoint alone: no await in it.
StartOnly(h, name, url) ==
    LET st == StartServers(EnabledOrder(enabled), tasks, running_tasks, name,
                           url)
    IN /\ RoomToStart(tasks, running_tasks, name, enabled)
       /\ HandlerLeaves(h, st.tasks, st.running,
                        [known_endpoints EXCEPT ![name] = url], "idle",
                        IdleLocal)

\* on_endpoint_update, lines 152-160.
OnConnect(h, name, url) ==
    IF known_endpoints[name] # NoUrl
    THEN IF known_endpoints[name] # url
         THEN StopAndMaybeStart(h, name, url, TRUE)
         ELSE HandlerLeaves(h, tasks, running_tasks, known_endpoints, "idle",
                            IdleLocal)
    ELSE StartOnly(h, name, url)

\* on_endpoint_update, lines 162-164.
OnDisconnect(h, name, url) == StopAndMaybeStart(h, name, url, FALSE)

\* on_endpoint_update, lines 166-171.
OnUpdate(h, name, url) ==
    IF known_endpoints[name] # NoUrl
    THEN StopAndMaybeStart(h, name, url, TRUE)
    ELSE StartOnly(h, name, url)

\* An Ably message arrives: AblyListener._handle_message calls
\* on_endpoint_update, which runs to its first await.
AblyConnect(h, name, url) ==
    /\ Arrives(h)
    /\ OnConnect(h, name, url)
    /\ RecOnly

AblyDisconnect(h, name, url) ==
    /\ Arrives(h)
    /\ OnDisconnect(h, name, url)
    /\ RecOnly

AblyUpdate(h, name, url) ==
    /\ Arrives(h)
    /\ OnUpdate(h, name, url)
    /\ RecOnly

\* _stop_endpoint, lines 73-76, after the await: the key is deleted, the
\* next task is cancelled and awaited; a key that is gone raises KeyError,
\* which ends the handler (AblyListener._handle_message logs it).
StopContinues(h) ==
    LET loc == hl[h]
        key == Head(loc.to_cancel)
        rest == Tail(loc.to_cancel)
        run == [running_tasks EXCEPT ![key] = NoTask]
    IN IF running_tasks[key] = NoTask
       THEN HandlerLeaves(h, tasks, running_tasks, known_endpoints, "idle",
                          IdleLocal)
       ELSE IF rest = <<>>
       THEN LET a == AfterStop(tasks, run, known_endpoints, loc.name,
                               loc.url, loc.then_start)
            IN /\ loc.then_start => RoomToStart(tasks, run, loc.name, enabled)
               /\ HandlerLeaves(h, a.tasks, a.running, a.known, "idle",
                                IdleLocal)
       ELSE IF run[Head(rest)] = NoTask
       THEN HandlerLeaves(h, tasks, run, known_endpoints, "idle", IdleLocal)
       ELSE HandlerLeaves(h, Cancelled(tasks, run[Head(rest)]), run,
                known_endpoints, "stopping",
                [loc EXCEPT !.to_cancel = rest,
                            !.awaiting = run[Head(rest)]])

\* The awaited task has finished: wait_for returns.
StopTaskDone(h) ==
    /\ hpc[h] = "stopping"
    /\ tasks[hl[h].awaiting].st = "done"
    /\ StopContinues(h)
    /\ UNCHANGED <<n_events, n_edits>>
    /\ RecOnly

\* The awaited task has not finished after 2 s: wait_for times out.
StopTimeout(h) ==
    /\ hpc[h] = "stopping"
    /\ tasks[hl[h].awaiting].st # "done"
    /\ StopContinues(h)
    /\ UNCHANGED <<n_events, n_edits>>
    /\ RecOnly

\* A cancelled supervisor task ends.
TaskEnds(id) ==
    /\ tasks[id].st = "cancelling"
    /\ tasks' = Collect([tasks EXCEPT ![id].st = "done"], running_tasks, hl, ml)
    /\ UNCHANGED <<known_endpoints, enabled, cfg_enabled, cfg_changed,
                   running_tasks, hpc, hl, mpc, ml>>
    /\ UNCHANGED <<n_events, n_edits>>
    /\ RecOnly

EndpointOrder == <<"e1", "e2">>

\* What get_all_endpoint_urls may return: the enabled endpoints of the
\* database with their URL, NoUrl for the others.
DbContents == [Endpoints -> Urls \cup {NoUrl}]

\* _run_servers, lines 181-182: _start_endpoint for each endpoint found.
RECURSIVE SyncAll(_, _, _, _, _)
SyncAll(order, ts, run, kn, db) ==
    IF order = <<>> THEN [tasks |-> ts, running |-> run, known |-> kn]
    ELSE LET name == Head(order)
             st == StartServers(EnabledOrder(enabled), ts, run, name,
                                db[name])
         IN IF db[name] = NoUrl
            THEN SyncAll(Tail(order), ts, run, kn, db)
            ELSE SyncAll(Tail(order), st.tasks, st.running,
                         [kn EXCEPT ![name] = db[name]], db)

\* Bound: the tasks the startup sync creates fit in the task table.
RoomToSync(ts, run, db) ==
    Cardinality({k \in TaskKeys : /\ db[k[1]] # NoUrl
                                  /\ k[2] \in enabled
                                  /\ Needed(ts, run, k)})
        <= Cardinality(FreeIds(ts))

\* The state the main loop leaves.
MainLeaves(ts, run, kn, en, pc, loc) ==
    /\ mpc' = pc
    /\ ml' = loc
    /\ running_tasks' = run
    /\ known_endpoints' = kn
    /\ enabled' = en
    /\ tasks' = Collect(ts, run, hl, ml')
    /\ UNCHANGED <<hpc, hl, cfg_enabled>>

\* Task.result() of a cancelled task raises CancelledError, which is no
\* Exception: it leaves the main loop and asyncio.run, the process ends.
ProcessEnds ==
    /\ mpc' = "crashed"
    /\ ml' = IdleMain
    /\ running_tasks' = [k \in TaskKeys |-> NoTask]
    /\ known_endpoints' = [e \in Endpoints |-> NoUrl]
    /\ tasks' = [i \in TaskIds |-> FreeTask]
    /\ hpc' = [h \in Handlers |-> "idle"]
    /\ hl' = [h \in Handlers |-> IdleLocal]
    /\ UNCHANGED <<enabled, cfg_enabled>>

\* _run_servers, lines 243-250: a task in running_tasks is done.
SomeDone(ts, run) ==
    \E k \in TaskKeys : run[k] # NoTask /\ ts[run[k]].st = "done"

\* The rest of an iteration of the main loop: clean up, then sleep.
CleanUpAndSleep(ts, run, kn, en) ==
    IF SomeDone(ts, run) THEN ProcessEnds
    ELSE MainLeaves(ts, run, kn, en, "sleep", IdleMain)

\* _run_servers, lines 178-184, then the first iteration of the main loop.
StartupSync(db) ==
    /\ mpc = "startup"
    /\ RoomToSync(tasks, running_tasks, db)
    /\ LET s == SyncAll(EndpointOrder, tasks, running_tasks, known_endpoints,
                        db)
       IN CleanUpAndSleep(s.tasks, s.running, s.known, enabled)
    /\ UNCHANGED cfg_changed
    /\ UNCHANGED <<n_events, n_edits>>
    /\ RecOnly

\* The operator edits mcp_config.json: the enabled servers change.
ConfigEdit(servers) ==
    /\ mpc \in {"sleep", "reload_wait"}
    /\ servers # cfg_enabled
    /\ n_edits < MaxEdits
    /\ n_edits' = n_edits + 1
    /\ UNCHANGED n_events
    /\ cfg_enabled' = servers
    /\ cfg_changed' = TRUE
    /\ UNCHANGED <<known_endpoints, enabled, running_tasks, tasks, hpc, hl,
                   mpc, ml>>
    /\ RecOnly

\* _run_servers, lines 232-240: tasks of the added servers for the known
\* endpoints; a key that is in running_tasks is left alone.
RECURSIVE StartAdded(_, _, _, _, _)
StartAdded(keys, ts, run, kn, added) ==
    IF keys = <<>> THEN [tasks |-> ts, running |-> run]
    ELSE LET key == Head(keys)
         IN IF /\ kn[key[1]] # NoUrl
               /\ key[2] \in added
               /\ run[key] = NoTask
               /\ FreeIds(ts) # {}
            THEN StartAdded(Tail(keys),
                     [ts EXCEPT ![MinFree(ts)] = NewTask(key, kn[key[1]])],
                     [run EXCEPT ![key] = MinFree(ts)], kn, added)
            ELSE StartAdded(Tail(keys), ts, run, kn, added)

\* Bound: the tasks the hot-reload creates fit in the task table.
RoomToAdd(ts, run, kn, added) ==
    Cardinality({k \in TaskKeys : /\ kn[k[1]] # NoUrl
                                  /\ k[2] \in added
                                  /\ run[k] = NoTask})
        <= Cardinality(FreeIds(ts))

\* _run_servers, lines 226-250: after the cancelled tasks are gone.
ReloadFinishes(ts, run, new_enabled, added) ==
    LET s == StartAdded(KeysOrder, ts, run, known_endpoints, added)
    IN /\ RoomToAdd(ts, run, known_endpoints, added)
       /\ CleanUpAndSleep(s.tasks, s.running, known_endpoints, new_enabled)

\* _run_servers, lines 207-214: the tasks of the removed servers.
ToCancel(run, removed) ==
    LET keys == SelectSeq(KeysOrder,
                    LAMBDA k : k[2] \in removed /\ run[k] # NoTask)
    IN [i \in DOMAIN keys |-> <<keys[i], run[keys[i]]>>]

\* The main loop wakes and finds the config file unchanged.
MainPoll ==
    /\ mpc = "sleep"
    /\ ~cfg_changed
    /\ SomeDone(tasks, running_tasks)
    /\ ProcessEnds
    /\ UNCHANGED cfg_changed
    /\ UNCHANGED <<n_events, n_edits>>
    /\ RecOnly

\* The main loop wakes and finds the config file changed: hot-reload up to
\* its first await, or to its end when no task is to be cancelled.
HotReload ==
    /\ mpc = "sleep"
    /\ cfg_changed
    /\ cfg_changed' = FALSE
    /\ LET new_enabled == cfg_enabled
           added == new_enabled \ enabled
           removed == enabled \ new_enabled
           cancel == ToCancel(running_tasks, removed)
       IN IF cancel = <<>>
          THEN ReloadFinishes(tasks, running_tasks, new_enabled, added)
          ELSE MainLeaves(Cancelled(tasks, cancel[1][2]), running_tasks,
                   known_endpoints, enabled, "reload_wait",
                   [to_cancel |-> cancel, awaiting |-> cancel[1][2],
                    new_enabled |-> new_enabled, added |-> added])
    /\ UNCHANGED <<n_events, n_edits>>
    /\ RecOnly

\* _run_servers, lines 219-223, after the await: the key is deleted (a key
\* that is gone raises KeyError: the iteration ends at line 255 with the
\* old enabled list), the next task is cancelled and awaited.
ReloadContinues ==
    LET key == ml.to_cancel[1][1]
        rest == Tail(ml.to_cancel)
        run == [running_tasks EXCEPT ![key] = NoTask]
    IN IF running_tasks[key] = NoTask
       THEN MainLeaves(tasks, running_tasks, known_endpoints, enabled,
                       "sleep", IdleMain)
       ELSE IF rest = <<>>
       THEN ReloadFinishes(tasks, run, ml.new_enabled, ml.added)
       ELSE MainLeaves(Cancelled(tasks, rest[1][2]), run, known_endpoints,
                enabled, "reload_wait",
                [ml EXCEPT !.to_cancel = rest, !.awaiting = rest[1][2]])

ReloadTaskDone ==
    /\ mpc = "reload_wait"
    /\ tasks[ml.awaiting].st = "done"
    /\ ReloadContinues
    /\ UNCHANGED cfg_changed
    /\ UNCHANGED <<n_events, n_edits>>
    /\ RecOnly

ReloadTimeout ==
    /\ mpc = "reload_wait"
    /\ tasks[ml.awaiting].st # "done"
    /\ ReloadContinues
    /\ UNCHANGED cfg_changed
    /\ UNCHANGED <<n_events, n_edits>>
    /\ RecOnly

RecStep ==
    \/ \E h \in Handlers, name \in Endpoints, url \in Urls :
          AblyConnect(h, name, url)
    \/ \E h \in Handlers, name \in Endpoints :
          AblyDisconnect(h, name, known_endpoints[name])
    \/ \E h \in Handlers, name \in Endpoints, url \in Urls :
          AblyUpdate(h, name, url)
    \/ \E h \in Handlers : StopTaskDone(h) \/ StopTimeout(h)
    \/ \E id \in TaskIds : TaskEnds(id)
    \/ \E db \in DbContents : StartupSync(db)
    \/ \E servers \in SUBSET ConfigServers : ConfigEdit(servers)
    \/ MainPoll
    \/ HotReload
    \/ ReloadTaskDone
    \/ ReloadTimeout

(***************************************************************************)
(*       ONE PATH: A CHILD'S STDOUT, THE BRIDGE, THE HUB, THE FRONTENDS    *)
(***************************************************************************)

\* Bound: the lines the child writes.
MaxPathLines == 3

PathClients == {"f1", "f2"}

\* The n-th line of the child: noise, a response, or a tools/list response.
LineKinds == {"noise", "response", "tools"}

Line(n, kind) == [n |-> n, kind |-> kind]

NoLine == Line(0, "none")

\* A send that puts the frame before those that wait.
SendAhead(queue, frame) == <<frame>> \o queue

\* websocket.send: the frames of a socket arrive in the order of the
\* sends.
SendOn(queue, frame) == Append(queue, frame)

\* The orders a loop may take the elements of a set in.
Orders(set) ==
    {o \in UNION {[1..n -> set] : n \in {Cardinality(set)}} :
        \A i, j \in DOMAIN o : i # j => o[i] # o[j]}

InitPath ==
    /\ child_lines = 0
    /\ child_stdout = <<>>
    /\ p2w_data = NoLine
    /\ ws_frames = <<>>
    /\ hub_message = NoLine
    /\ clients_left = <<>>
    /\ browser_clients = {}
    /\ delivered = [f \in PathClients |-> <<>>]

\* The child writes its next line.
PathChildWrites(kind) ==
    /\ child_lines < MaxPathLines
    /\ child_lines' = child_lines + 1
    /\ child_stdout' = Append(child_stdout, Line(child_lines + 1, kind))
    /\ UNCHANGED <<p2w_data, ws_frames, hub_message, clients_left,
                   browser_clients, delivered>>
    /\ PathOnly

\* pipe_process_to_websocket, line 82: readline returns the first line of
\* the pipe; lines 88-108: a tools/list response is filtered.
PathReadline ==
    /\ p2w_data = NoLine
    /\ child_stdout # <<>>
    /\ p2w_data' =
           IF Head(child_stdout).kind = "tools"
           THEN [Head(child_stdout) EXCEPT !.kind = "filtered tools"]
           ELSE Head(child_stdout)
    /\ child_stdout' = Tail(child_stdout)
    /\ UNCHANGED <<child_lines, ws_frames, hub_message, clients_left,
                   browser_clients, delivered>>
    /\ PathOnly

\* pipe_process_to_websocket, line 113: the line is sent, and the loop
\* goes back to readline.
PathSend ==
    /\ p2w_data # NoLine
    /\ ws_frames' = SendOn(ws_frames, p2w_data)
    /\ p2w_data' = NoLine
    /\ UNCHANGED <<child_lines, child_stdout, hub_message, clients_left,
                   browser_clients, delivered>>
    /\ PathOnly

\* handle_connection, lines 419-424: the loop over the provider socket
\* takes the next message, handle_mcp_message returns, forward_to_browsers
\* copies browser_clients and starts its loop.
PathHubReads(order) ==
    /\ hub_message = NoLine
    /\ ws_frames # <<>>
    /\ hub_message' = Head(ws_frames)
    /\ ws_frames' = Tail(ws_frames)
    /\ clients_left' = order
    /\ UNCHANGED <<child_lines, child_stdout, p2w_data, browser_clients,
                   delivered>>
    /\ PathOnly

\* forward_to_browsers, lines 191-195: the message is sent to the next
\* client of the copy; the send to a socket that has closed raises, which
\* is passed over.  After the last client the loop over the provider
\* socket goes on.
PathHubForwards ==
    /\ hub_message # NoLine
    /\ clients_left # <<>>
    /\ LET client == Head(clients_left)
       IN delivered' =
              IF client \in browser_clients
              THEN [delivered EXCEPT ![client] = SendOn(@, hub_message)]
              ELSE delivered
    /\ clients_left' = Tail(clients_left)
    /\ hub_message' = IF Tail(clients_left) = <<>> THEN NoLine ELSE hub_message
    /\ UNCHANGED <<child_lines, child_stdout, p2w_data, ws_frames,
                   browser_clients>>
    /\ PathOnly

\* forward_to_browsers with no browser client: the loop has no turn.
PathHubForwardsToNone ==
    /\ hub_message # NoLine
    /\ clients_left = <<>>
    /\ hub_message' = NoLine
    /\ UNCHANGED <<child_lines, child_stdout, p2w_data, ws_frames,
                   clients_left, browser_clients, delivered>>
    /\ PathOnly

\* register_browser, line 39: a frontend socket connects.
PathBrowserConnects(f) ==
    /\ f \notin browser_clients
    /\ delivered[f] = <<>>
    /\ browser_clients' = browser_clients \cup {f}
    /\ UNCHANGED <<child_lines, child_stdout, p2w_data, ws_frames,
                   hub_message, clients_left, delivered>>
    /\ PathOnly

\* unregister_browser, line 46: a frontend socket closes.
PathBrowserCloses(f) ==
    /\ f \in browser_clients
    /\ browser_clients' = browser_clients \ {f}
    /\ UNCHANGED <<child_lines, child_stdout, p2w_data, ws_frames,
                   hub_message, clients_left, delivered>>
    /\ PathOnly

PathStep ==
    \/ \E kind \in LineKinds : PathChildWrites(kind)
    \/ PathReadline
    \/ PathSend
    \/ \E order \in Orders(browser_clients) : PathHubReads(order)
    \/ PathHubForwards
    \/ PathHubForwardsToNone
    \/ \E f \in PathClients : PathBrowserConnects(f)
    \/ \E f \in PathClients : PathBrowserCloses(f)

(***************************************************************************)
(*              THE TABLE OF THE ENDPOINTS AND THE ADMIN API               *)
(***************************************************************************)

\* Bounds: the rows the table ever holds and the ticks of the clock.
MaxRows == 2
MaxClock == 2

EndpointIds == 1 .. MaxRows

\* NULL in a column that holds a time.
NullTime == 0 - 1

\* An id that has no row.
NoRow ==
    [name |-> "none", url |-> "none", enabled |-> 0,
     connection_status |-> "none", connection_error |-> "null",
     last_connected_at |-> NullTime, updated_at |-> NullTime]

\* database.py add_endpoint, lines 231-240: the row inserted; the columns
\* of the status take the defaults of the schema, lines 50-60.
NewRow(name, url, is_enabled, now) ==
    [name |-> name, url |-> url, enabled |-> IF is_enabled THEN 1 ELSE 0,
     connection_status |-> "disconnected", connection_error |-> "null",
     last_connected_at |-> NullTime, updated_at |-> now]

\* A value that may be None: <<>> for None, <<v>> for the value v.
None == <<>>

Some(v) == <<v>>

\* schemas/endpoints.py EndpointUpdate: the bodies of a PUT.
Bodies ==
    [name : {None} \cup {Some(n) : n \in Endpoints},
     url : {None} \cup {Some(u) : u \in Urls},
     enabled : {None, Some(0), Some(1)}]

\* The name is UNIQUE: a row of another id holds it.
NameTaken(table, id, name) ==
    \E j \in EndpointIds : j # id /\ table[j] # NoRow /\ table[j].name = name

\* database.py update_endpoint, lines 265-298: the row after the UPDATE.
update_endpoint(row, body, now) ==
    IF body.name = None /\ body.url = None /\ body.enabled = None THEN row
    ELSE [row EXCEPT
            !.name = IF body.name # None THEN body.name[1] ELSE @,
            !.url = IF body.url # None THEN body.url[1] ELSE @,
            !.enabled = IF body.enabled # None
                        THEN (IF body.enabled[1] # 0 THEN 1 ELSE 0) ELSE @,
            !.updated_at = now]

\* The payload of an event: services/ably.py, lines 42-45.
Event(action, id, row) ==
    [action |-> action, id |-> id, name |-> row.name, url |-> row.url]

\* An admin API that tells the toggles of enabled only.
NotifiesToggles(id, current, endpoint) ==
    IF endpoint.enabled # 0 /\ current.enabled = 0
    THEN <<Event("CONNECT", id, endpoint)>>
    ELSE IF endpoint.enabled = 0 /\ current.enabled # 0
    THEN <<Event("DISCONNECT", id, endpoint)>>
    ELSE <<>>

\* routes/endpoints.py update_endpoint_route, lines 113-122.
Notification(id, current, endpoint) ==
    IF endpoint.enabled # 0 /\ current.enabled = 0
    THEN <<Event("CONNECT", id, endpoint)>>
    ELSE IF endpoint.enabled = 0 /\ current.enabled # 0
    THEN <<Event("DISCONNECT", id, endpoint)>>
    ELSE IF /\ endpoint.enabled # 0
            /\ (current.url # endpoint.url \/ current.name # endpoint.name)
    THEN <<Event("UPDATE", id, endpoint)>>
    ELSE <<>>

InitDb ==
    /\ mcp_endpoints = [id \in EndpointIds |-> NoRow]
    /\ db_seq = 0
    /\ clock = 0
    /\ published = <<>>

\* Time passes.
Tick ==
    /\ clock < MaxClock
    /\ clock' = clock + 1
    /\ published' = <<>>
    /\ UNCHANGED <<mcp_endpoints, db_seq>>
    /\ DbOnly

\* POST /endpoints: create_endpoint_route, lines 81-95.  A name that is
\* taken makes the INSERT raise IntegrityError: the answer is 400.
CreateEndpointRoute(name, url, is_enabled) ==
    /\ db_seq < MaxRows
    /\ LET id == db_seq + 1
       IN IF NameTaken(mcp_endpoints, id, name)
          THEN /\ published' = <<>>
               /\ UNCHANGED <<mcp_endpoints, db_seq>>
          ELSE LET endpoint == NewRow(name, url, is_enabled, clock)
               IN /\ mcp_endpoints' = [mcp_endpoints EXCEPT ![id] = endpoint]
                  /\ db_seq' = id
                  /\ published' =
                         IF endpoint.enabled # 0
                         THEN <<Event("CONNECT", id, endpoint)>>
                         ELSE <<>>
    /\ UNCHANGED clock
    /\ DbOnly

\* PUT /endpoints/{id}: update_endpoint_route, lines 98-125.  Without the
\* row the answer is 404; a name that is taken makes the UPDATE raise
\* IntegrityError, which leaves the route before anything is published.
UpdateEndpointRoute(id, body) ==
    /\ LET current == mcp_endpoints[id]
           endpoint == update_endpoint(current, body, clock)
       IN IF current = NoRow \/ NameTaken(mcp_endpoints, id, endpoint.name)
          THEN /\ published' = <<>>
               /\ UNCHANGED mcp_endpoints
          ELSE /\ mcp_endpoints' = [mcp_endpoints EXCEPT ![id] = endpoint]
               /\ published' = Notification(id, current, endpoint)
    /\ UNCHANGED <<db_seq, clock>>
    /\ DbOnly

\* DELETE /endpoints/{id}: delete_endpoint_route, lines 128-137.
DeleteEndpointRoute(id) ==
    /\ LET endpoint == mcp_endpoints[id]
       IN /\ mcp_endpoints' = [mcp_endpoints EXCEPT ![id] = NoRow]
          /\ published' =
                 IF endpoint # NoRow /\ endpoint.enabled # 0
                 THEN <<Event("DISCONNECT", id, endpoint)>>
                 ELSE <<>>
    /\ UNCHANGED <<db_seq, clock>>
    /\ DbOnly

Statuses == {"disconnected", "connecting", "connected", "error"}

\* The error of a status: None of the caller is NULL in the table.
StatusErrors == {"null", "refused"}

\* A write of the status alone, whatever the status.
StatusWithoutTime(row, status, error, now) ==
    [row EXCEPT !.connection_status = status,
                !.connection_error = error,
                !.updated_at = now]

\* database.py update_endpoint_status, lines 358-377: the row after the
\* one UPDATE statement of the call.
StatusWrite(row, status, error, now) ==
    IF status = "connected"
    THEN [row EXCEPT !.connection_status = status,
                     !.last_connected_at = now,
                     !.connection_error = "null",
                     !.updated_at = now]
    ELSE [row EXCEPT !.connection_status = status,
                     !.connection_error = error,
                     !.updated_at = now]

\* A supervisor calls update_endpoint_status; the UPDATE changes the row
\* of the id when there is one.
UpdateEndpointStatus(id, status, error) ==
    /\ mcp_endpoints' =
           IF mcp_endpoints[id] = NoRow THEN mcp_endpoints
           ELSE [mcp_endpoints EXCEPT
                    ![id] = StatusWrite(mcp_endpoints[id], status, error, clock)]
    /\ published' = <<>>
    /\ UNCHANGED <<db_seq, clock>>
    /\ DbOnly

\* The bodies of a PUT that sets enabled and nothing else.
Toggles == {body \in Bodies : body.name = None /\ body.url = None}

\* The supervisors write the status of the endpoints of one URL, which
\* the admin creates enabled, toggles and deletes.
StatusStep ==
    \/ Tick
    \/ \E name \in Endpoints : CreateEndpointRoute(name, "u1", TRUE)
    \/ \E id \in EndpointIds, body \in Toggles : UpdateEndpointRoute(id, body)
    \/ \E id \in EndpointIds : DeleteEndpointRoute(id)
    \/ \E id \in EndpointIds, status \in Statuses, error \in StatusErrors :
           UpdateEndpointStatus(id, status, error)

AdminStep ==
    \/ Tick
    \/ \E name \in Endpoints, url \in Urls, en \in BOOLEAN :
           CreateEndpointRoute(name, url, en)
    \/ \E id \in EndpointIds, body \in Bodies : UpdateEndpointRoute(id, body)
    \/ \E id \in EndpointIds : DeleteEndpointRoute(id)

(***************************************************************************)
(*               TWO BRIDGES OF ONE PROCESS AND THEIR FLAGS                *)
(***************************************************************************)

\* Two supervisors of one process, each with its WebSocket and its child.
Bridges == {"A", "B"}

\* The ids of the tools/list requests the hubs send: truthy ones.
TwoIds == {1, 2}

InitTwo ==
    /\ module_pending = [i \in TwoIds |-> NoFlag]
    /\ child_asked = [b \in Bridges |-> [i \in TwoIds |-> NoFlag]]
    /\ flag_applied = [b \in Bridges |-> NoFlag]

\* pipe_websocket_to_process of bridge b, lines 44-57: a tools/list request
\* arrives, its flag is kept in the dict of the module under its id, and
\* the request is written to the child of b.  (Bound: the hub of b has no
\* other request with this id outstanding.)
TwoWsRecv(b, id, include_disabled) ==
    /\ child_asked[b][id] = NoFlag
    /\ module_pending' = [module_pending EXCEPT ![id] = include_disabled]
    /\ child_asked' = [child_asked EXCEPT ![b][id] = include_disabled]
    /\ UNCHANGED flag_applied
    /\ TwoOnly

\* _pending_tools_requests.pop(request_id, False), line 100.
Popped(pending, id) == IF pending[id] = NoFlag THEN "false" ELSE pending[id]

\* pipe_process_to_websocket of bridge b, lines 94-103: the child of b
\* answers the request id, the flag is popped from the dict of the module
\* and the response is filtered with it.
TwoP2WRead(b, id) ==
    /\ child_asked[b][id] # NoFlag
    /\ flag_applied' = [flag_applied EXCEPT ![b] = Popped(module_pending, id)]
    /\ module_pending' = [module_pending EXCEPT ![id] = NoFlag]
    /\ child_asked' = [child_asked EXCEPT ![b][id] = NoFlag]
    /\ TwoOnly

TwoStep ==
    \/ \E b \in Bridges, id \in TwoIds, flag \in {"true", "false"} :
           TwoWsRecv(b, id, flag)
    \/ \E b \in Bridges, id \in TwoIds : TwoP2WRead(b, id)

(***************************************************************************)
(*                            SPECIFICATIONS                               *)
(***************************************************************************)

\* The parts a specification leaves alone stay as they are constructed.
InitOfBridge ==
    /\ InitBridge
    /\ InitHub
    /\ InitRec
    /\ enabled = ConfigServers
    /\ ListIdle
    /\ DialIdle
    /\ InitDb
    /\ InitPath
    /\ InitTwo

InitOfHub ==
    /\ InitBridge
    /\ endpoint_id = 1
    /\ disabled_tools = {}
    /\ custom_tools = NoCustom
    /\ InitHub
    /\ InitRec
    /\ enabled = ConfigServers
    /\ ListIdle
    /\ DialIdle
    /\ InitDb
    /\ InitPath
    /\ InitTwo

InitOfRec ==
    /\ InitBridge
    /\ endpoint_id = 1
    /\ disabled_tools = {}
    /\ custom_tools = NoCustom
    /\ InitHub
    /\ InitRec
    /\ ListIdle
    /\ DialIdle
    /\ InitDb
    /\ InitPath
    /\ InitTwo

InitOfList ==
    /\ InitBridge
    /\ endpoint_id = 1
    /\ disabled_tools = {}
    /\ custom_tools = NoCustom
    /\ InitHub
    /\ InitRec
    /\ enabled = ConfigServers
    /\ InitList
    /\ DialIdle
    /\ InitDb
    /\ InitPath
    /\ InitTwo

InitOfDial ==
    /\ InitBridge
    /\ endpoint_id = 1
    /\ disabled_tools = {}
    /\ custom_tools = NoCustom
    /\ InitHub
    /\ InitRec
    /\ enabled = ConfigServers
    /\ ListIdle
    /\ InitDial
    /\ InitDb
    /\ InitPath
    /\ InitTwo

InitOfDb ==
    /\ InitBridge
    /\ endpoint_id = 1
    /\ disabled_tools = {}
    /\ custom_tools = NoCustom
    /\ InitHub
    /\ InitRec
    /\ enabled = ConfigServers
    /\ ListIdle
    /\ DialIdle
    /\ InitDb
    /\ InitPath
    /\ InitTwo

SpecBridge == InitOfBridge /\ [][BridgeStep]_vars

FairSpecBridge == SpecBridge /\ WF_vars(BridgeProgress)

SpecHub == InitOfHub /\ [][HubStep]_vars

SpecRec == InitOfRec /\ [][RecStep]_vars

SpecOneSocket == InitOfHub /\ [][OneSocketStep]_vars

SpecTwoFrontends == InitOfHub /\ [][TwoFrontStep]_vars

SpecList == InitOfList /\ [][ListStep]_vars

SpecDial == InitOfDial /\ [][DialStep]_vars

SpecAdmin == InitOfDb /\ [][AdminStep]_vars

SpecStatus == InitOfDb /\ [][StatusStep]_vars

SpecPath == InitOfDb /\ [][PathStep]_vars

SpecTwoBridges == InitOfDb /\ [][TwoStep]_vars

\* After the startup sync, CONNECT messages for one endpoint, all with one
\* URL, and nothing else: no other message, no edit of the config file.
ConnectedName == "e1"

ConnectedUrl == "u2"

TwoConnectsStep ==
    \/ \E db \in DbContents : StartupSync(db)
    \/ \E h \in Handlers : AblyConnect(h, ConnectedName, ConnectedUrl)
    \/ \E h \in Handlers : StopTaskDone(h) \/ StopTimeout(h)
    \/ \E id \in TaskIds : TaskEnds(id)

SpecTwoConnects == InitOfRec /\ [][TwoConnectsStep]_vars

(***************************************************************************)
(*                     PROPERTIES OF THE BRIDGE SUPERVISOR                 *)
(***************************************************************************)

\* The k-th wait of the sequence 1, 2, 4, ..., 512, 600, 600, ...
ClaimedWait(k) == Min(Pow2(k - 1), MAX_BACKOFF)

\* C5: while no connection has succeeded, the wait before the k-th
\* reconnection attempt is the k-th term of 1, 2, 4, ..., 512, 600, 600.
C5_BackoffSequence ==
    (bpc = "sleeping" /\ ~everOpened)
        => backoff = ClaimedWait(reconnect_attempt)

\* C6: when the WebSocket has opened, the backoff is back at its initial
\* value of 1 second.
C6_BackoffResetOnOpen ==
    bpc = "piping" => backoff = INITIAL_BACKOFF

\* A transient failure has happened and was not yet followed by a new
\* connection attempt: an exception was counted, or the child has exited.
TransientFailure ==
    \/ bpc \in {"loop_top", "sleeping"} /\ reconnect_attempt > 0
    \/ bpc = "piping" /\ ~process_alive

\* C7: after a transient failure (a dial refused, a connection dropped, a
\* spawn that fails, a child that exits) the supervisor records status
\* 'error' with the error, and it comes to dial again unless it is cancelled.
C7_RetryForever ==
    /\ []((bpc = "loop_top" /\ reconnect_attempt > 0 /\ endpoint_id # NoId)
            => (connection_status = "error" /\ connection_error # "null"))
    /\ [](TransientFailure => <>(bpc \in {"connecting", "terminated"}))

\* C8: once an attempt has failed with 'Authentication failed' the bridge
\* neither waits for a reconnection nor dials again.
C8_AuthFailureStops ==
    authFailed => bpc \notin {"sleeping", "connecting", "piping"}

\* C9: once pipe_process_to_websocket has read the end of the child's
\* stdout, the bridge leaves the connected state, by steps of its own: no
\* frame has to arrive on the WebSocket.
C9_EofLeavesConnected ==
    (bpc = "piping" /\ p2w = "ended") ~> (bpc # "piping")

\* C10 as stated: no line that is not JSON is ever sent on the WebSocket.
C10_NoiseDropped ==
    \A i \in DOMAIN ws_sent : ws_sent[i].json

\* pipe_process_to_websocket takes a line that is not JSON from the stdout.
ReadsNoise ==
    /\ bpc = "piping"
    /\ p2w = "running"
    /\ p2w' = "running"
    /\ stdout_buf # <<>>
    /\ ~Head(stdout_buf).json
    /\ stdout_buf' = Tail(stdout_buf)
    /\ lines_written' = lines_written

\* C10, amended: a line of the child's stdout that is not JSON is sent on
\* the WebSocket as it is, and the bridge stays connected.
C10_NoiseForwarded ==
    [][ReadsNoise
        => ws_sent' = Append(ws_sent, Head(stdout_buf)) /\ bpc' = "piping"]_vars

\* A line that is not JSON was sent and the bridge is connected.
C10_Witness ==
    /\ bpc = "piping"
    /\ \E i \in DOMAIN ws_sent : ws_sent[i] = NoiseLine

(***************************************************************************)
(*                         PROPERTIES OF THE HUB                           *)
(***************************************************************************)

\* C1: every entry of the tool registry names a provider that is in the
\* hub's provider map (mcp_tools), that is, whose socket is open.
C1_RegistryOwnersOpen ==
    \A k \in RegistryKeys :
        tool_registry[k] # NoServer => mcp_tools[tool_registry[k]] # NoConn

\* The socket c of a provider closes in this step.
Closes(c) == conn_name[c] # NoServer /\ conn_name'[c] = NoServer

\* C2: when the socket of a provider closes, unregister_mcp removes the
\* provider's entries of the registry, those under the prefixed form
\* '<provider>.<name>' included: no such key maps to the provider once the
\* close is handled.
C2_CloseRemovesPrefixed ==
    [][\A c \in Conns :
          Closes(c) =>
              \A t \in HubToolNames :
                  tool_registry'[Prefixed(conn_name[c], t)] # conn_name[c]]_vars

\* C14: a tools/call whose name the registry does not hold is answered
\* to the frontend that sent it with error -32601 and the id of the
\* request, and nothing is sent to a provider; a tools/call whose name
\* the registry holds is sent, as it is, to the socket of the provider the
\* registry names as owner, and to no other.
C14_CallRoutedToOwner ==
    [][\A f \in Frontends, id \in FrontIds, t \in RegistryKeys :
          FrontendToolsCall(f, id, t) =>
              IF tool_registry[t] = NoServer
              THEN /\ reply' = WithId(Reply("error -32601", f, <<>>, {}), id)
                   /\ sent' = <<>>
              ELSE sent' =
                       <<Frame(mcp_tools[tool_registry[t]], "tools/call", id)>>
      ]_vars

\* The hub has just answered a tools/list, with two connected providers
\* in its cache that both list one tool, of the same name.
TwoListTheSame ==
    /\ reply.kind = "tools"
    /\ Len(server_tools) = 2
    /\ \A i \in 1..2 : mcp_tools[server_tools[i].server] # NoConn
    /\ Len(server_tools[1].tools) = 1
    /\ server_tools[2].tools = server_tools[1].tools

\* C15: when two connected providers both list a tool named n, the answer
\* to a tools/list holds two tools: n, of the provider that comes first,
\* and '<P2>.n', of the later one P2, each with its description prefixed
\* by its provider in brackets; and a tools/call for '<P2>.n' that follows
\* is sent to the socket of P2.
C15_SameNamePrefixed ==
    /\ [](TwoListTheSame =>
            LET tool == server_tools[1].tools[1]
                P1 == server_tools[1].server
                P2 == server_tools[2].server
            IN reply.tools =
                   <<WireTool(tool.name,
                              "[" \o P1 \o "] " \o tool.description,
                              tool.inputSchema),
                     WireTool(P2 \o "." \o tool.name,
                              "[" \o P2 \o "] " \o tool.description,
                              tool.inputSchema)>>)
    /\ [][\A f \in Frontends, id \in HubIds :
            LET P2 == server_tools[2].server
                shown == P2 \o "." \o server_tools[1].tools[1].name
            IN (TwoListTheSame /\ FrontendToolsCall(f, id, shown))
                   => sent' = <<Frame(mcp_tools[P2], "tools/call", id)>>]_vars

\* After the answer of C15, with P2 the later provider, a tools/call was
\* sent to the socket of P2: it named 'P2.a', the only key of P2.
C15_Witness ==
    /\ reply.kind = "routed"
    /\ Len(server_tools) = 2
    /\ server_tools[1].server = "P1"
    /\ server_tools[2].server = "P2"
    /\ server_tools[1].tools = server_tools[2].tools
    /\ mcp_tools["P1"] # NoConn
    /\ mcp_tools["P2"] # NoConn
    /\ reply.to = {mcp_tools["P2"]}
    /\ tool_registry["P2.a"] = "P2"
    /\ \A k \in RegistryKeys \ {"P2.a"} : tool_registry[k] # "P2"

\* C16: when the tools/list response of a provider is recorded and one of
\* its tool names is owned, in the registry, by another provider that is
\* connected, the entry of that name keeps its owner and the tool of the
\* newcomer is recorded under '<provider>.<name>'.
C16_CollisionPrefixedAtInsertion ==
    [][\A c \in Conns, tools \in HubToolLists :
          ToolsResponse(c, tools) =>
              \A n \in ToolNames(tools) :
                  LET owner == tool_registry[n]
                  IN (/\ owner \notin {NoServer, conn_name[c]}
                      /\ mcp_tools[owner] # NoConn)
                         => /\ tool_registry'[n] = owner
                            /\ tool_registry'[Prefixed(conn_name[c], n)]
                                   = conn_name[c]]_vars

\* C17: while the initialize of a provider has not succeeded (it is not
\* answered, or it was answered with an error), no registry entry of the
\* provider appears and no tool of the provider enters the cache the
\* aggregated list is built from, whatever the frontends send.
C17_AdmittedAfterHandshake ==
    [][\A s \in Servers :
          s \in pending_inits' =>
              /\ \A k \in RegistryKeys :
                     tool_registry'[k] = s => tool_registry[k] = s
              /\ DictHas(server_tools', s) =>
                     \/ DictGet(server_tools', s) = <<>>
                     \/ /\ DictHas(server_tools, s)
                        /\ DictGet(server_tools', s) = DictGet(server_tools, s)
      ]_vars

\* The requests of a kind that wait at the provider on socket c.
Waiting(c, kind) == \E i \in DOMAIN inbox[c] : inbox[c][i] = kind

\* C18: on a provider socket the hub sends initialize first, and the
\* tools/list with id hub_tools_<name> (with notifications/initialized
\* before it) only once the provider has answered that initialize: no
\* socket has the hub's tools/list while its initialize is unanswered.
C18_HandshakeOrder ==
    \A c \in Conns : Waiting(c, "hub_tools") => ~Waiting(c, "init")

\* C19: a frame of the hub's own handshake with a provider (the exchange
\* with id hub_init_<name> and the one with id hub_tools_<name>) is passed
\* on to no frontend socket.
C19_HandshakeNotForwarded ==
    forwarded.id \in {HubInitId(s) : s \in Servers}
                         \cup {HubToolsId(s) : s \in Servers}
        => forwarded.to = {}

Carries(path, token) ==
    \E i \in DOMAIN path.query : path.query[i] = <<"token", token>>

\* C21: when the hub has a token, a socket that dials without the piece
\* token=<that token> in its query is not registered as a provider: no
\* map of the hub changes and no frame is sent to it; a socket that dials
\* the provider path /mcp so is closed with code 4001.
C21_BadTokenRejected ==
    [][\A c \in Conns, path \in Paths :
          (/\ conn_name[c] = NoServer
           /\ MCP_WS_TOKEN # ""
           /\ ~Carries(path, MCP_WS_TOKEN)
           /\ HandleConnection(c, path))
              => /\ conn_name'[c] = NoServer
                 /\ UNCHANGED <<mcp_tools, server_tools, tool_registry,
                                pending_inits, inbox>>
                 /\ sent' = <<>>
                 /\ path.base = McpBase => dialled'[c] = "closed 4001"
      ]_vars

\* The hub has a token, the provider P1 is registered on one socket and
\* the other socket was closed with code 4001.
C21_Witness ==
    /\ MCP_WS_TOKEN = HubToken
    /\ conn_name["c1"] = "P1"
    /\ mcp_tools["P1"] = "c1"
    /\ dialled["c2"] = "closed 4001"
    /\ conn_name["c2"] = NoServer

(***************************************************************************)
(*                  PROPERTIES OF THE TOOLS/LIST ROUND TRIP                *)
(***************************************************************************)

\* The tool settings hold nothing for the tool named n.
NoOverlay(n) == n \notin rt_disabled /\ rt_custom[n] = Meta("none", "none")

\* The frontend has its answer, built after the provider's response was
\* cached.
Answered == rt_pc = "done" /\ rt_event = "set"

\* C11: with one provider whose child lists one tool, of name T,
\* description D and input schema S, and no overlay for T in the tool
\* settings, the answer to the frontend's tools/list holds exactly one
\* tool: name T, description '[provider] ' + D, input schema S.
C11_RoundTripOneTool ==
    (Answered /\ Len(rt_tools) = 1 /\ NoOverlay(rt_tools[1].name))
        => rt_reply.tools =
               <<WireTool(rt_tools[1].name,
                          "[P1] " \o rt_tools[1].description,
                          rt_tools[1].inputSchema)>>

\* The round trip of C11 has ended, for the tool b.
C11_Witness ==
    /\ Answered
    /\ rt_tools = <<WireTool("b", "d2", "s2")>>
    /\ NoOverlay("b")
    /\ rt_reply.kind = "tools"
    /\ Len(rt_reply.tools) = 1

\* C12: with one provider whose only tool T is disabled in the tool
\* settings, the answer to a tools/list without include_disabled holds no
\* tool, and the answer to a tools/list with params.include_disabled =
\* true holds T as in the case where it is not disabled.
C12_DisabledUnlessAsked ==
    (/\ Answered
     /\ Len(rt_tools) = 1
     /\ rt_tools[1].name \in rt_disabled
     /\ rt_custom[rt_tools[1].name] = Meta("none", "none"))
        => rt_reply.tools =
               IF rt_include = "true"
               THEN <<WireTool(rt_tools[1].name,
                               "[P1] " \o rt_tools[1].description,
                               rt_tools[1].inputSchema)>>
               ELSE <<>>

\* The bridge has sent the filtered response to the hub.
Filtered == rt_pc \in {"sent", "recorded", "done"} /\ rt_frame # NoFrame

\* C13: every tool of a tools/list response the bridge forwards is a tool
\* of the child's response, under the name the child gave it, whatever the
\* tool settings hold (a custom_name included); it differs from the
\* child's tool in the description only, and only where a
\* custom_description is set, which is then the description.
C13_FilterKeepsName ==
    Filtered =>
        \A i \in DOMAIN rt_frame.tools :
            \E j \in DOMAIN rt_tools :
                LET kept == rt_frame.tools[i]
                    tool == rt_tools[j]
                    custom == rt_custom[tool.name]
                IN /\ kept.name = tool.name
                   /\ kept.inputSchema = tool.inputSchema
                   /\ kept.description =
                          IF custom.description # "none"
                          THEN custom.description
                          ELSE tool.description

\* A tool with a custom name and a custom description was forwarded, and
\* one with a custom name only.
C13_Witness ==
    /\ Filtered
    /\ rt_custom["a"] = Meta("x", "y")
    /\ rt_custom["b"] = Meta("x", "none")
    /\ Len(rt_frame.tools) = 2

(***************************************************************************)
(*                  PROPERTIES OF THE PATH TO A FRONTEND                   *)
(***************************************************************************)

\* C24: the frames of the child that a frontend socket has got are in the
\* order the child wrote them: of two of them, the one written first (the
\* lower line number) was delivered first.
C24_OrderKept ==
    \A f \in PathClients :
        \A i, j \in DOMAIN delivered[f] :
            i < j => delivered[f][i].n < delivered[f][j].n

\* Both frontends have got the three lines of the child.
C24_Witness ==
    \A f \in PathClients :
        /\ Len(delivered[f]) = MaxPathLines
        /\ delivered[f][1].n = 1

(***************************************************************************)
(*             PROPERTIES OF THE TABLE AND OF THE ADMIN API                *)
(***************************************************************************)

\* The actions of the events C22 tells for a row that goes from before to
\* after (NoRow: there is no row).
ClaimedActions(before, after) ==
    IF before = NoRow
    THEN IF after # NoRow /\ after.enabled = 1 THEN <<"CONNECT">> ELSE <<>>
    ELSE IF after = NoRow
    THEN IF before.enabled = 1 THEN <<"DISCONNECT">> ELSE <<>>
    ELSE IF before.enabled = 0 /\ after.enabled = 1 THEN <<"CONNECT">>
    ELSE IF before.enabled = 1 /\ after.enabled = 0 THEN <<"DISCONNECT">>
    ELSE IF /\ after.enabled = 1
            /\ (before.url # after.url \/ before.name # after.name)
    THEN <<"UPDATE">>
    ELSE <<>>

C23_ConnectedWriteAtomic ==
    /\ [](\A id \in EndpointIds :
            mcp_endpoints[id].connection_status = "connected"
                => /\ mcp_endpoints[id].last_connected_at # NullTime
                   /\ mcp_endpoints[id].connection_error = "null")
    /\ [][\A id \in EndpointIds, error \in StatusErrors :
            (mcp_endpoints[id] # NoRow
             /\ UpdateEndpointStatus(id, "connected", error))
                => /\ mcp_endpoints'[id].connection_status = "connected"
                   /\ mcp_endpoints'[id].connection_error = "null"
                   /\ mcp_endpoints'[id].last_connected_at
                          >= mcp_endpoints[id].updated_at
                   /\ mcp_endpoints'[id].last_connected_at = clock]_vars

\* Endpoint 1 was written connected at time 2; endpoint 2, connected at
\* time 1, has failed since and holds the error.
C23_Witness ==
    /\ clock = 2
    /\ mcp_endpoints[1].connection_status = "connected"
    /\ mcp_endpoints[1].last_connected_at = 2
    /\ mcp_endpoints[2].connection_status = "error"
    /\ mcp_endpoints[2].connection_error = "refused"
    /\ mcp_endpoints[2].last_connected_at = 1

(***************************************************************************)
(*                      PROPERTIES OF THE RECONCILER                       *)
(***************************************************************************)

\* The supervisor tasks that run and were not cancelled.
RunningFor(ts, key) == {i \in TaskIds : ts[i].key = key /\ ts[i].st = "running"}

\* C3: the endpoint of every running supervisor task is known to the
\* reconciler and its provider is enabled in the config that is loaded.
C3_RunningAreDesired ==
    \A i \in TaskIds :
        tasks[i].st = "running"
            => /\ known_endpoints[tasks[i].key[1]] # NoUrl
               /\ tasks[i].key[2] \in enabled

\* C4: once two CONNECTs for the same endpoint, same name and URL, are
\* both handled, the endpoint has exactly one supervisor task for each
\* enabled server, however the two handlers interleave.
C4_TwoConnectsOneSet ==
    (n_events = 2 /\ \A h \in Handlers : hpc[h] = "idle")
        => \A s \in enabled :
               Cardinality(RunningFor(tasks, <<ConnectedName, s>>)) = 1

\* A reconcile pass has begun and is suspended at an await: a handler in
\* _stop_endpoint, or the hot-reload of the main loop.
PassInProgress ==
    \/ \E h \in Handlers : hpc[h] # "idle"
    \/ mpc = "reload_wait"

\* A reconcile pass begins in this step: a message is handled, or the main
\* loop finds the config file changed.
PassBegins ==
    \/ n_events' # n_events
    \/ mpc = "sleep" /\ cfg_changed /\ ~cfg_changed'

\* C25: while a reconcile pass is in progress no other pass begins: the
\* passes over running_tasks and known_endpoints run one at a time, each
\* to its end.
C25_OnePassAtATime ==
    [][PassInProgress => ~PassBegins]_vars

\* The supervisor tasks of a key that have not finished: running, or
\* cancelled and not yet done.
AliveFor(ts, key) ==
    {i \in TaskIds : ts[i].key = key /\ ts[i].st \in {"running", "cancelling"}}

\* C26: the key of a supervisor leaves running_tasks, or passes to a new
\* supervisor, only once the task of the supervisor is done; so no key has
\* two supervisors alive at once.
C26_CancelCompletesFirst ==
    /\ [][\A k \in TaskKeys :
            (/\ running_tasks[k] # NoTask
             /\ running_tasks'[k] # running_tasks[k]
             /\ mpc' # "crashed")
                => tasks[running_tasks[k]].st = "done"]_vars
    /\ [](\A k \in TaskKeys : Cardinality(AliveFor(tasks, k)) <= 1)

\* Every reconcile wake has finished: no handler is in progress, the main
\* loop sleeps and has loaded the config file as it is.
AllWakesFinished ==
    /\ \A h \in Handlers : hpc[h] = "idle"
    /\ mpc = "sleep"
    /\ ~cfg_changed

\* C27: once every reconcile wake has finished, each known endpoint has,
\* for each enabled server, a supervisor in running_tasks that runs.
C27_DesiredAreRunning ==
    AllWakesFinished =>
        \A k \in TaskKeys :
            (known_endpoints[k[1]] # NoUrl /\ k[2] \in enabled)
                => /\ running_tasks[k] # NoTask
                   /\ tasks[running_tasks[k]].st = "running"

\* The supervisors of endpoint name all dial url: each enabled server has
\* a running one in run, and no live task of the endpoint dials another URL.
AllDial(ts, run, servers, name, url) ==
    /\ \A s \in servers :
          /\ run[<<name, s>>] # NoTask
          /\ ts[run[<<name, s>>]].st = "running"
          /\ ts[run[<<name, s>>]].url = url
    /\ \A i \in TaskIds :
          (ts[i].key[1] = name /\ ts[i].st \in {"running", "cancelling"})
              => ts[i].url = url

\* C28: when the handler of an UPDATE for a running endpoint ends (it went
\* through _stop_endpoint and is to start the endpoint again), every live
\* supervisor of the endpoint dials the URL of the event and every enabled
\* server has a running one.
C28_UpdateRedials ==
    [][\A h \in Handlers :
          (/\ hpc[h] = "stopping"
           /\ hpc'[h] = "idle"
           /\ hl[h].then_start
           /\ mpc' # "crashed")
              => AllDial(tasks', running_tasks', enabled', hl[h].name,
                         hl[h].url)]_vars

\* C29: when build_server_command refuses the server because the config
\* disables it, no child runs and the supervisor neither dials again nor
\* waits to dial again: it is not back in its retry loop.
C29_DisabledIsNotRetried ==
    [][SpawnRefused =>
          /\ ~process_alive'
          /\ bpc' \notin {"loop_top", "sleeping", "connecting"}]_vars

\* C30: when the wait before a reconnection starts, neither
\* pipe_process_to_websocket nor pipe_process_stderr_to_terminal of the
\* connection that failed is still running, and the child is not alive.
C30_PipesGoneBeforeBackoff ==
    [][(bpc = "loop_top" /\ bpc' = "sleeping")
          => /\ p2w' # "running"
             /\ errpipe' # "running"
             /\ ~process_alive']_vars

\* C31: the flag a bridge applies to a tools/list response is the flag of
\* the request with the same id that this bridge received.
C31_FlagOfOwnBridge ==
    [][\A b \in Bridges, id \in TwoIds :
          TwoP2WRead(b, id) => flag_applied'[b] = child_asked[b][id]]_vars

\* C32: while a refresh waits for a provider, the request it sent is its
\* own: the event of that provider is the one pending_tools_requests holds
\* under the request's id, so that the response completes this refresh.
C32_RefreshKeepsItsEvents ==
    \A f \in Frontends, s \in Servers :
        (fpc[f] = "refreshing" /\ events[f][s] = "unset")
            => pending_tools_requests[s] = f

\* C33: a frame of a provider that is no JSON-RPC object is forwarded to
\* the frontends and leaves the provider registered, with its cache and
\* its registry entries.
C33_MalformedIsForwarded ==
    [][\A kind \in MalformedKinds :
          MalformedFrame(OneConn, kind)
              => /\ forwarded'.to = Frontends
                 /\ conn_name' = conn_name
                 /\ mcp_tools' = mcp_tools
                 /\ server_tools' = server_tools
                 /\ tool_registry' = tool_registry]_vars

\* The provider on socket c is registered, has answered initialize and has
\* answered the tools/list the hub sent after it.
HasListed(c) ==
    /\ conn_name[c] # NoServer
    /\ mcp_tools[conn_name[c]] = c
    /\ conn_name[c] \notin pending_inits
    /\ \A i \in DOMAIN inbox[c] : inbox[c][i] \notin {"init", "hub_tools"}

\* C34: a tools/call for a tool that a connected provider, which has
\* answered initialize and tools/list, advertises is not answered with
\* error -32601.
C34_AdvertisedIsFound ==
    [][\A f \in Frontends, id \in HubIds, t \in HubToolNames :
          (/\ HasListed(OneConn)
           /\ t \in ToolNames(Advertised(conn_name[OneConn]))
           /\ FrontendToolsCall(f, id, t))
              => reply'.kind # "error -32601"]_vars

\* C35: the frames a tools/call makes the hub send go to the socket of
\* the provider the registry names as owner of the tool, and to no other.
C35_CallNeverBroadcast ==
    [][\A f \in OneFrontend, id \in HubIds, t \in RegistryKeys :
          (/\ fpc[f] = "idle"
           /\ tool_registry[t] # NoServer
           /\ FrontendToolsCall(f, id, t))
              => \A i \in DOMAIN sent' :
                     sent'[i].to = mcp_tools[tool_registry[t]]]_vars

\* C36: when a socket closes whose server name is registered to another
\* socket, open under the same name, that socket stays registered and the
\* cache and the registry keep the entries of the name.
C36_OldCloseSparesNew ==
    [][\A c \in Conns :
          (/\ conn_name[c] # NoServer
           /\ mcp_tools[conn_name[c]] \notin {NoConn, c}
           /\ ProviderClose(c))
              => /\ mcp_tools'[conn_name[c]] = mcp_tools[conn_name[c]]
                 /\ server_tools' = server_tools
                 /\ tool_registry' = tool_registry]_vars

\* C37: a supervisor that was cancelled and has finished does not leave
\* the status 'connected' in the row of its endpoint.
C37_CancelledNotConnected ==
    bpc = "terminated" => connection_status # "connected"

\* The frame is the line after filter_tools_response with this flag.
FilteredWith(data, include_disabled) ==
    [data EXCEPT !.tools = FilterTools(data.tools, include_disabled)]

\* The flags the request of a response may have carried, as far as the
\* bridge can tell: include_disabled = true only when it was recorded under
\* the id; a request with a falsy id is not recorded at all.
FlagsFor(data) ==
    IF data.id = 0 THEN BOOLEAN
    ELSE IF pipe_pending[data.id] = "true" THEN {TRUE} ELSE {FALSE}

\* C39: a line of the child whose result holds tools is sent on the
\* WebSocket as filter_tools_response leaves it, whatever its id: without
\* the disabled tools unless the request asked for them, and with the
\* custom descriptions.
C39_EveryToolsFrameFiltered ==
    [][(/\ stdout_buf # <<>>
        /\ Head(stdout_buf).json
        /\ Head(stdout_buf).hasTools
        /\ P2WRead)
          => \E flag \in FlagsFor(Head(stdout_buf)) :
                 ws_sent' = Append(ws_sent,
                                   FilteredWith(Head(stdout_buf), flag))]_vars

\* The UPDATE that update_endpoint_route publishes after a rename: it
\* carries the new name only; the bridge host knows the endpoint as old.
AblyRename(h, old, new, url) ==
    /\ old # new
    /\ known_endpoints[old] # NoUrl
    /\ known_endpoints[new] = NoUrl
    /\ AblyUpdate(h, new, url)

\* C38: when the handler of the UPDATE of a rename has ended, no supervisor
\* keyed by the old name is left: none in running_tasks, none alive.
C38_RenameStopsOldName ==
    [][\A h \in Handlers, old \in Endpoints, new \in Endpoints,
          url \in Urls :
          (AblyRename(h, old, new, url) /\ hpc'[h] = "idle")
              => /\ \A k \in TaskKeys :
                       k[1] = old => running_tasks'[k] = NoTask
                 /\ \A i \in TaskIds :
                       tasks'[i].key[1] = old
                           => tasks'[i].st \notin {"running", "cancelling"}]_vars

\* C40: the stored connection_error of the endpoint is set exactly while
\* its connection_status is 'error': a write of 'connecting', 'connected'
\* or 'disconnected' clears it and a write of 'error' stores the message.
C40_ErrorOnlyWithErrorStatus ==
    (connection_error # "null") <=> (connection_status = "error")

\* After a failure wrote 'error' with its message, the wait before the
\* reconnection wrote 'disconnected' and the error is gone.
C40_ErrorWasCleared ==
    /\ endpoint_id # NoId
    /\ reconnect_attempt > 0
    /\ connection_status = "disconnected"
    /\ connection_error = "null"

====
